---------------------------- MODULE Spec2Model ----------------------------
(***************************************************************************)
(* A model of verplant: the rules engine of src/shared/src/lib.rs          *)
(* (cards, deck, PlayerSheet, GameState) and the session layer of          *)
(* src/server/src/main.rs (GameSession, GameServer).                       *)
(***************************************************************************)
EXTENDS Integers, Sequences, FiniteSets, TLC

(***************************************************************************)
(* Bounds of the model.                                                    *)
(***************************************************************************)
\* next_round is not called once the u32 round counter has reached MaxRound
MaxRound == 1
\* reveal_card is not called more than MaxReveals times in one game
MaxReveals == 2
\* player ids handed to the GameState API are 1..MaxPlayers
MaxPlayers == 2
\* a player is not added once the sheets of a game hold MaxWindows car windows
MaxWindows == 8

\* values the time-derived shuffle seed takes (a hash of the clock: any u64)
Seeds == {85, 243}

\* a recorded game is followed until MaxFills car windows are filled
MaxFills == 4
\* the sends of the server are followed for MaxDeliveryJoins JoinGame messages
MaxDeliveryJoins == 2
\* start_new_round is called at most MaxStarts times in a session whose
\* rounds are started until the deck is empty
MaxStarts == 17
\* a game played to the end of its deck: reveal_card is called at most
\* MaxDraws times and next_round at most MaxFiled times
MaxDraws == 19
MaxFiled == 3

\* sessions the server creates: a JoinGame is not received when the joins
\* in progress could take the number of sessions beyond MaxSessions
MaxSessions == 2
\* JoinGame messages the server processes
MaxJoins == 7
\* PlayerAction and StartGame messages the server processes
MaxOps == 1

VARIABLES
    city,           \* GameState.city
    players,        \* GameState.players : player id -> PlayerSheet
    current_card,   \* GameState.current_card (NoCard for None)
    deck,           \* GameState.deck, drawn from the end
    discard_pile,   \* GameState.discard_pile
    round,          \* GameState.round
    game_ended,     \* GameState.game_ended
    reveals,        \* number of reveal_card calls so far
    ret,            \* what the last call of the GameState API returned
    sessions,       \* the GameSessions created so far, by session id
    registry,       \* keys of GameServer.sessions
    rw_readers,     \* tasks holding the registry RwLock for reading
    tasks,          \* the handle_connection tasks
    next_player,    \* the next fresh player Uuid
    overlapped,     \* whether a JoinGame began while another was in progress
    chan_holder,    \* per connection, the task holding the Mutex of its sender
    sending,        \* per task, the message it is sending and the channels left
    delivered,      \* (message, player) pairs handed to a sender
    skipped,        \* (message, player) pairs whose try_lock failed
    next_msg,       \* the number of the next message the server sends
    shuffle_runs    \* two executions of shuffle_deck on one input, step by step

gameVars == <<city, players, current_card, deck, discard_pile, round, game_ended>>
serverVars == <<sessions, registry, rw_readers, tasks, next_player, overlapped>>
channelVars == <<chan_holder, sending, delivered, skipped, next_msg>>
shuffleVars == <<shuffle_runs>>

(***************************************************************************)
(* Cards.                                                                  *)
(***************************************************************************)
Number(v) == [kind |-> "Number", n |-> v]
Six == [kind |-> "Six", n |-> 0]
Express(v) == [kind |-> "Express", n |-> v]
Transfer == [kind |-> "Transfer", n |-> 0]
FreeRide == [kind |-> "FreeRide", n |-> 0]
\* Option<Card>::None
NoCard == [kind |-> "None", n |-> 0]

\* Option<u8>::None of get_value
NoValue == -1

\* a deck built without its FreeRide card
create_deck_without_free_ride ==
    <<Number(1), Number(1), Number(2), Number(2), Number(3), Number(3),
      Number(4), Number(4), Number(5), Number(5),
      Six, Express(2), Express(3), Express(4), Transfer>>

create_deck ==
    <<Number(1), Number(1), Number(2), Number(2), Number(3), Number(3),
      Number(4), Number(4), Number(5), Number(5),
      Six, Express(2), Express(3), Express(4), Transfer, FreeRide>>

get_value(card) ==
    CASE card.kind \in {"Number", "Express"} -> card.n
      [] card.kind = "Six" -> 6
      [] OTHER -> NoValue

(***************************************************************************)
(* u64 arithmetic of the shuffle.  A u64 is its 8 bytes, least significant *)
(* first, so that wrapping_mul and wrapping_add are computed modulo 2^64.  *)
(***************************************************************************)
RECURSIVE BytesOf(_, _)
BytesOf(n, k) == IF k = 0 THEN <<>> ELSE <<n % 256>> \o BytesOf(n \div 256, k - 1)

U64(n) == BytesOf(n, 8)

\* 1103515245 = 0x41C64E6D and 12345 = 0x3039
LcgMul == <<109, 78, 198, 65>>
LcgAdd == <<57, 48, 0, 0, 0, 0, 0, 0>>

ProductColumn(s, k) ==
    LET term(j) == IF j <= k THEN s[k - j + 1] * LcgMul[j] ELSE 0
    IN  term(1) + term(2) + term(3) + term(4)

RECURSIVE LcgBytes(_, _, _)
LcgBytes(s, k, carry) ==
    IF k > 8 THEN <<>>
    ELSE LET t == ProductColumn(s, k) + LcgAdd[k] + carry
         IN  <<t % 256>> \o LcgBytes(s, k + 1, t \div 256)

\* rng_state.wrapping_mul(1103515245).wrapping_add(12345)
LcgNext(s) == LcgBytes(s, 1, 0)

RECURSIVE ModFrom(_, _, _, _)
ModFrom(s, m, k, r) ==
    IF k = 0 THEN r ELSE ModFrom(s, m, k - 1, (r * 256 + s[k]) % m)

\* (rng_state as usize) % m, usize being 64 bits wide
ModU64(s, m) == ModFrom(s, m, 8, 0)

Swap(seq, a, b) ==
    [x \in 1..Len(seq) |-> IF x = a THEN seq[b] ELSE IF x = b THEN seq[a] ELSE seq[x]]

\* the loop body for 0-based index i, then the lower indexes
RECURSIVE ShuffleFrom(_, _, _)
ShuffleFrom(d, state, i) ==
    IF i < 1 THEN d
    ELSE LET s2 == LcgNext(state)
             j == ModU64(s2, i + 1)
         IN  ShuffleFrom(Swap(d, i + 1, j + 1), s2, i - 1)

shuffle_deck(d, seed) == ShuffleFrom(d, U64(seed), Len(d) - 1)

(***************************************************************************)
(* The static map of a city.                                               *)
(***************************************************************************)
Cities == {"Amsterdam", "Berlin"}

AmsterdamMap ==
    [stations |-> [s \in {"central", "dam", "museum"} |->
                      [lines |-> IF s = "central" THEN <<"red", "blue">> ELSE <<"red">>]],
     lines |-> [l \in {"red", "blue"} |->
                   IF l = "red"
                   THEN [stations |-> <<"central", "dam", "museum">>,
                         completion_points |-> <<6, 3>>]
                   ELSE [stations |-> <<"central">>, completion_points |-> <<4, 2>>]]]

PlaceholderMap ==
    [stations |-> [s \in {"test"} |-> [lines |-> <<"test">>]],
     lines |-> [l \in {"test"} |->
                   [stations |-> <<"test">>, completion_points |-> <<1, 1>>]]]

create_subway_map(c) == IF c = "Amsterdam" THEN AmsterdamMap ELSE PlaceholderMap

\* GameSession.subway_map of the session that owns the GameState
subway_map == create_subway_map(city)

\* the maps a caller of the rules engine has at hand: process_player_action
\* takes the map as an argument, the GameState keeps none
Maps == {create_subway_map(c) : c \in Cities}

(***************************************************************************)
(* PlayerSheet.                                                            *)
(***************************************************************************)
\* Option<String>::None in a car window
None == "None"
\* number of windows of a line
Windows == 4

Cross == [kind |-> "Cross", n |-> 0]
TransferNumber(c) == [kind |-> "TransferNumber", n |-> c]

NotCompleted == [kind |-> "NotCompleted", points |-> 0]
FirstToComplete(p) == [kind |-> "FirstToComplete", points |-> p]
LaterCompletion(p) == [kind |-> "LaterCompletion", points |-> p]

EmptyMap == [x \in {} |-> 0]
Insert(m, k, v) == [x \in DOMAIN m \cup {k} |-> IF x = k THEN v ELSE m[x]]
Contains(seq, x) == \E i \in 1..Len(seq) : seq[i] = x

PlayerSheet_new(map) ==
    [train_cars |-> [l \in DOMAIN map.lines |-> [i \in 1..Windows |-> None]],
     marked_stations |-> EmptyMap,
     completed_lines |-> <<>>,
     line_completion_status |-> [l \in DOMAIN map.lines |-> NotCompleted]]

can_use_line(sheet, line_id) ==
    /\ line_id \in DOMAIN sheet.train_cars
    /\ \E i \in 1..Len(sheet.train_cars[line_id]) : sheet.train_cars[line_id][i] = None

\* u8::to_string
DecimalString(v) ==
    CASE v = 0 -> "0" [] v = 1 -> "1" [] v = 2 -> "2" [] v = 3 -> "3"
      [] v = 4 -> "4" [] v = 5 -> "5" [] v = 6 -> "6" [] OTHER -> ToString(v)

WindowText(card) ==
    IF card.kind = "Transfer" THEN "+"
    ELSE IF get_value(card) = NoValue THEN "0" ELSE DecimalString(get_value(card))

\* the loop run from the right: the last empty window is written
FirstEmptyWindow_from_the_right(windows) ==
    CHOOSE i \in 1..Len(windows) :
        windows[i] = None /\ \A j \in (i + 1)..Len(windows) : windows[j] # None

\* the loop without its is_none test: the first window is written
FirstEmptyWindow_always_first(windows) == 1

\* the window the iter_mut loop of add_card_to_line writes
FirstEmptyWindow(windows) ==
    CHOOSE i \in 1..Len(windows) :
        windows[i] = None /\ \A j \in 1..(i - 1) : windows[j] # None

add_card_to_line(sheet, line_id, card) ==
    IF ~can_use_line(sheet, line_id)
    THEN [ok |-> FALSE, err |-> "No empty windows available for this line", sheet |-> sheet]
    ELSE LET i == FirstEmptyWindow(sheet.train_cars[line_id])
         IN  [ok |-> TRUE, err |-> "",
              sheet |-> [sheet EXCEPT !.train_cars[line_id][i] = WindowText(card)]]

\* Option<String>::None of find_next_empty_station
NoStation == "NoStation"

\* the loop without its contains_key test: the first station is returned
FirstUnmarked_ignores_marks(stations, i, marked) ==
    IF i > Len(stations) THEN NoStation ELSE stations[i]

RECURSIVE FirstUnmarked(_, _, _)
FirstUnmarked(stations, i, marked) ==
    IF i > Len(stations) THEN NoStation
    ELSE IF stations[i] \notin DOMAIN marked THEN stations[i]
    ELSE FirstUnmarked(stations, i + 1, marked)

find_next_empty_station(sheet, line_id, map) ==
    IF line_id \notin DOMAIN map.lines
    THEN [ok |-> FALSE, err |-> "Line not found", station |-> NoStation]
    ELSE [ok |-> TRUE, err |-> "",
          station |-> FirstUnmarked(map.lines[line_id].stations, 1, sheet.marked_stations)]

\* the loop with break in both branches: an Express card stops like a Number card
RECURSIVE ScanStations_never_skips(_, _, _, _, _)
ScanStations_never_skips(stations, i, remaining_marks, is_express, marked) ==
    IF i > Len(stations) \/ remaining_marks = 0 THEN <<>>
    ELSE IF stations[i] \in DOMAIN marked THEN <<>>
         ELSE <<stations[i]>> \o
              ScanStations_never_skips(stations, i + 1, remaining_marks - 1, is_express, marked)

\* the for loop of find_stations_to_mark from station i on
RECURSIVE ScanStations(_, _, _, _, _)
ScanStations(stations, i, remaining_marks, is_express, marked) ==
    IF i > Len(stations) \/ remaining_marks = 0 THEN <<>>
    ELSE IF stations[i] \in DOMAIN marked
         THEN IF is_express
              THEN ScanStations(stations, i + 1, remaining_marks, is_express, marked)
              ELSE <<>>
         ELSE <<stations[i]>> \o
              ScanStations(stations, i + 1, remaining_marks - 1, is_express, marked)

find_stations_to_mark(sheet, line_id, value, is_express, map) ==
    IF line_id \notin DOMAIN map.lines
    THEN [ok |-> FALSE, err |-> "Line not found", stations |-> <<>>]
    ELSE [ok |-> TRUE, err |-> "",
          stations |-> ScanStations(map.lines[line_id].stations, 1, value, is_express,
                                    sheet.marked_stations)]

RECURSIVE InsertAll(_, _, _)
InsertAll(m, keys, v) ==
    IF keys = <<>> THEN m ELSE InsertAll(Insert(m, Head(keys), v), Tail(keys), v)

mark_stations_from_line(sheet, line_id, card, map) ==
    IF line_id \notin DOMAIN map.lines
    THEN [ok |-> FALSE, err |-> "Line not found", sheet |-> sheet, marked |-> <<>>]
    ELSE CASE card.kind = "FreeRide" ->
                [ok |-> TRUE, err |-> "", sheet |-> sheet, marked |-> <<>>]
           [] card.kind = "Transfer" ->
                LET f == find_next_empty_station(sheet, line_id, map)
                IN  IF ~f.ok
                    THEN [ok |-> FALSE, err |-> f.err, sheet |-> sheet, marked |-> <<>>]
                    ELSE IF f.station = NoStation
                    THEN [ok |-> TRUE, err |-> "", sheet |-> sheet, marked |-> <<>>]
                    ELSE IF f.station \notin DOMAIN map.stations
                    THEN [ok |-> FALSE, err |-> "Station not found", sheet |-> sheet,
                          marked |-> <<>>]
                    ELSE LET connection_count == Len(map.stations[f.station].lines)
                         IN  [ok |-> TRUE, err |-> "",
                              sheet |-> [sheet EXCEPT !.marked_stations =
                                            Insert(@, f.station,
                                                   TransferNumber(connection_count))],
                              marked |-> <<f.station>>]
           [] OTHER ->
                LET value == IF get_value(card) = NoValue THEN 0 ELSE get_value(card)
                    is_express == card.kind = "Express"
                    f == find_stations_to_mark(sheet, line_id, value, is_express, map)
                IN  IF ~f.ok
                    THEN [ok |-> FALSE, err |-> f.err, sheet |-> sheet, marked |-> <<>>]
                    ELSE [ok |-> TRUE, err |-> "",
                          sheet |-> [sheet EXCEPT !.marked_stations =
                                        InsertAll(@, f.stations, Cross)],
                          marked |-> f.stations]

\* the test without !completed_lines.contains(line_id)
check_line_completion_unguarded(sheet, line_id, map) ==
    LET stations == map.lines[line_id].stations
        all_marked == \A i \in 1..Len(stations) : stations[i] \in DOMAIN sheet.marked_stations
    IN  IF all_marked
        THEN [completed |-> TRUE,
              sheet |-> [sheet EXCEPT !.completed_lines = Append(@, line_id)]]
        ELSE [completed |-> FALSE, sheet |-> sheet]

check_line_completion(sheet, line_id, map) ==
    LET stations == map.lines[line_id].stations
        all_marked == \A i \in 1..Len(stations) : stations[i] \in DOMAIN sheet.marked_stations
    IN  IF all_marked /\ ~Contains(sheet.completed_lines, line_id)
        THEN [completed |-> TRUE,
              sheet |-> [sheet EXCEPT !.completed_lines = Append(@, line_id)]]
        ELSE [completed |-> FALSE, sheet |-> sheet]

\* a u32 as its two 16-bit halves <<high, low>>
U32(hi, lo) == <<hi, lo>>
\* a - b on u32 for a, b below 2^16, wrapping around below zero
U32WrappingSub(a, b) == IF a >= b THEN U32(0, a - b) ELSE U32(65535, 65536 - (b - a))
\* (x / 2) as i32: the quotient is below 2^31, where the cast changes nothing
U32HalfAsI32(x) == x[1] * 32768 + (x[2] \div 2)

RECURSIVE SumOver(_, _)
SumOver(f, keys) ==
    IF keys = {} THEN 0
    ELSE LET k == CHOOSE x \in keys : TRUE IN f[k] + SumOver(f, keys \ {k})

\* the station count the loop over subway_map.lines adds up
TotalStations(map) ==
    SumOver([l \in DOMAIN map.lines |-> Len(map.lines[l].stations)], DOMAIN map.lines)

\* total_stations - marked_stations on u32: below zero a build with overflow
\* checks panics and a build without them wraps around
count_empty_stations(sheet, map) ==
    LET total_stations == TotalStations(map)
        marked_stations == Cardinality(DOMAIN sheet.marked_stations)
    IN  IF marked_stations <= total_stations
        THEN {[panicked |-> FALSE,
               value |-> U32WrappingSub(total_stations, marked_stations)]}
        ELSE {[panicked |-> TRUE, value |-> U32(0, 0)],
              [panicked |-> FALSE,
               value |-> U32WrappingSub(total_stations, marked_stations)]}

\* the outcomes of calculate_score: a score, or a panic in count_empty_stations
calculate_score(sheet, map) ==
    LET completed == sheet.completed_lines
        line_points ==
            SumOver([i \in 1..Len(completed) |->
                        IF completed[i] \in DOMAIN sheet.line_completion_status
                        THEN sheet.line_completion_status[completed[i]].points
                        ELSE 0],
                    1..Len(completed))
        transfer_points ==
            SumOver([st \in DOMAIN sheet.marked_stations |->
                        IF sheet.marked_stations[st].kind = "TransferNumber"
                        THEN sheet.marked_stations[st].n * 2
                        ELSE 0],
                    DOMAIN sheet.marked_stations)
    IN  {IF e.panicked
         THEN [panicked |-> TRUE, score |-> 0]
         ELSE [panicked |-> FALSE,
               score |-> line_points + transfer_points - U32HalfAsI32(e.value)] :
           e \in count_empty_stations(sheet, map)}

(***************************************************************************)
(* GameState.                                                              *)
(***************************************************************************)
PlayerIds == 1..MaxPlayers

\* a line and a station no map has
UnknownLine == "nowhere"
UnknownStation == "nowhere"

ChooseLine(l, w) ==
    [kind |-> "ChooseLine", line_id |-> l, station_id |-> "", car_window_index |-> w]
MarkTransferStation(s) ==
    [kind |-> "MarkTransferStation", line_id |-> "", station_id |-> s, car_window_index |-> 0]
MarkFreeRideStation(s) ==
    [kind |-> "MarkFreeRideStation", line_id |-> "", station_id |-> s, car_window_index |-> 0]
CompleteLineAnnouncement(l) ==
    [kind |-> "CompleteLineAnnouncement", line_id |-> l, station_id |-> "",
     car_window_index |-> 0]

\* the PlayerAction values a client sends for a map
PlayerActions(map) ==
    LET lines == DOMAIN map.lines \cup {UnknownLine}
        stations == DOMAIN map.stations \cup {UnknownStation}
    IN  {ChooseLine(l, w) : l \in lines, w \in {0, Windows - 1}}
        \cup {MarkTransferStation(s) : s \in stations}
        \cup {MarkFreeRideStation(s) : s \in stations}
        \cup {CompleteLineAnnouncement(l) : l \in lines}

\* GameMessage values process_player_action produces
LineCompleted(p, l) ==
    [type |-> "LineCompleted", player_id |-> p, line_id |-> l, text |-> "", n |-> 0]
PlayerActionResult(text, n) ==
    [type |-> "PlayerActionResult", player_id |-> 0, line_id |-> "", text |-> text, n |-> n]

\* the update without its if line_completed
record_completion_unconditional(sheet, line_id, line_completed, others_completed, map) ==
    IF line_id \in DOMAIN map.lines
    THEN LET points == map.lines[line_id].completion_points
         IN  [sheet EXCEPT !.line_completion_status[line_id] =
                 IF ~others_completed
                 THEN FirstToComplete(points[1])
                 ELSE LaterCompletion(points[2])]
    ELSE sheet

\* the update of line_completion_status after check_line_completion
record_completion(sheet, line_id, line_completed, others_completed, map) ==
    IF line_completed /\ line_id \in DOMAIN map.lines
    THEN LET points == map.lines[line_id].completion_points
         IN  [sheet EXCEPT !.line_completion_status[line_id] =
                 IF ~others_completed
                 THEN FirstToComplete(points[1])
                 ELSE LaterCompletion(points[2])]
    ELSE sheet

Failed(ps, e) == [ok |-> FALSE, err |-> e, players |-> ps, messages |-> <<>>]
Succeeded(ps, msgs) == [ok |-> TRUE, err |-> "", players |-> ps, messages |-> msgs]

\* a test that never finds an earlier completion
others_completed_never(ps, player_id, line_id) == FALSE

\* self.players.values().filter(|p| p.player_id != player_id)
\*     .any(|p| p.completed_lines.contains(&line_id))
others_completed(ps, player_id, line_id) ==
    \E p \in DOMAIN ps \ {player_id} : Contains(ps[p].completed_lines, line_id)

\* the ChooseLine arm; ps is GameState.players, card the current card
choose_line(ps, card, player_id, line_id, map) ==
    LET others_completed_first == others_completed(ps, player_id, line_id)
    IN  IF player_id \notin DOMAIN ps THEN Failed(ps, "Player not found")
        ELSE
        LET a == add_card_to_line(ps[player_id], line_id, card)
        IN  IF ~a.ok THEN Failed([ps EXCEPT ![player_id] = a.sheet], a.err)
            ELSE
            LET m == mark_stations_from_line(a.sheet, line_id, card, map)
            IN  IF ~m.ok THEN Failed([ps EXCEPT ![player_id] = m.sheet], m.err)
                ELSE
                LET c == check_line_completion(m.sheet, line_id, map)
                    sheet == record_completion(c.sheet, line_id, c.completed,
                                               others_completed_first, map)
                    done == IF c.completed
                            THEN <<LineCompleted(player_id, line_id)>> ELSE <<>>
                IN  Succeeded([ps EXCEPT ![player_id] = sheet],
                              done \o <<PlayerActionResult("Marked stations",
                                                           Len(m.marked))>>)

\* the arm that marks a station the map does not have, with no connections
mark_transfer_station_without_lookup(ps, card, player_id, station_id, map) ==
    IF card.kind # "Transfer"
    THEN Failed(ps, "Can only mark transfer station with transfer card")
    ELSE IF player_id \notin DOMAIN ps THEN Failed(ps, "Player not found")
    ELSE LET connection_count == IF station_id \in DOMAIN map.stations
                                 THEN Len(map.stations[station_id].lines) ELSE 0
         IN  Succeeded([ps EXCEPT ![player_id].marked_stations =
                           Insert(@, station_id, TransferNumber(connection_count))],
                       <<PlayerActionResult("Marked transfer station with connections",
                                            connection_count)>>)

\* the MarkTransferStation arm
mark_transfer_station(ps, card, player_id, station_id, map) ==
    IF card.kind # "Transfer"
    THEN Failed(ps, "Can only mark transfer station with transfer card")
    ELSE IF station_id \notin DOMAIN map.stations THEN Failed(ps, "Station not found")
    ELSE IF player_id \notin DOMAIN ps THEN Failed(ps, "Player not found")
    ELSE LET connection_count == Len(map.stations[station_id].lines)
         IN  Succeeded([ps EXCEPT ![player_id].marked_stations =
                           Insert(@, station_id, TransferNumber(connection_count))],
                       <<PlayerActionResult("Marked transfer station with connections",
                                            connection_count)>>)

\* the arm without its test of the current card
mark_free_ride_station_with_any_card(ps, card, player_id, station_id) ==
    IF player_id \notin DOMAIN ps THEN Failed(ps, "Player not found")
    ELSE IF station_id \in DOMAIN ps[player_id].marked_stations
    THEN Failed(ps, "Station already marked")
    ELSE Succeeded([ps EXCEPT ![player_id].marked_stations = Insert(@, station_id, Cross)],
                   <<PlayerActionResult("Marked free ride station", 0)>>)

\* the MarkFreeRideStation arm
mark_free_ride_station(ps, card, player_id, station_id) ==
    IF card.kind # "FreeRide"
    THEN Failed(ps, "Can only mark free ride station with free ride card")
    ELSE IF player_id \notin DOMAIN ps THEN Failed(ps, "Player not found")
    ELSE IF station_id \in DOMAIN ps[player_id].marked_stations
    THEN Failed(ps, "Station already marked")
    ELSE Succeeded([ps EXCEPT ![player_id].marked_stations = Insert(@, station_id, Cross)],
                   <<PlayerActionResult("Marked free ride station", 0)>>)

\* the match without the ok_or("No card revealed") before it
process_player_action_without_card_check(ps, card, player_id, action, map) ==
    CASE action.kind = "ChooseLine" ->
            choose_line(ps, card, player_id, action.line_id, map)
      [] action.kind = "MarkTransferStation" ->
            mark_transfer_station(ps, card, player_id, action.station_id, map)
      [] action.kind = "MarkFreeRideStation" ->
            mark_free_ride_station(ps, card, player_id, action.station_id)
      [] OTHER ->
            Succeeded(ps, <<LineCompleted(player_id, action.line_id)>>)

process_player_action(ps, card, player_id, action, map) ==
    IF card = NoCard THEN Failed(ps, "No card revealed")
    ELSE CASE action.kind = "ChooseLine" ->
                choose_line(ps, card, player_id, action.line_id, map)
           [] action.kind = "MarkTransferStation" ->
                mark_transfer_station(ps, card, player_id, action.station_id, map)
           [] action.kind = "MarkFreeRideStation" ->
                mark_free_ride_station(ps, card, player_id, action.station_id)
           [] OTHER ->
                Succeeded(ps, <<LineCompleted(player_id, action.line_id)>>)

\* the test with any for the first all: one full sheet ends the game
check_game_end_one_full_sheet(ps) ==
    \E p \in DOMAIN ps : \A l \in DOMAIN ps[p].train_cars :
        \A i \in 1..Len(ps[p].train_cars[l]) : ps[p].train_cars[l][i] # None

check_game_end(ps) ==
    \A p \in DOMAIN ps : \A l \in DOMAIN ps[p].train_cars :
        \A i \in 1..Len(ps[p].train_cars[l]) : ps[p].train_cars[l][i] # None

\* Vec::pop of the deck
Last(d) == d[Len(d)]
Front(d) == SubSeq(d, 1, Len(d) - 1)

\* draw_card without its else-if branch: an empty deck yields no card
draw_card_never_reshuffles(d, dp, seed) ==
    IF Len(d) > 0 THEN [card |-> Last(d), deck |-> Front(d), discard_pile |-> dp]
    ELSE [card |-> NoCard, deck |-> d, discard_pile |-> dp]

draw_card(d, dp, seed) ==
    IF Len(d) > 0 THEN [card |-> Last(d), deck |-> Front(d), discard_pile |-> dp]
    ELSE IF Len(dp) > 0
    THEN LET nd == shuffle_deck(d \o dp, seed)
         IN  [card |-> Last(nd), deck |-> Front(nd), discard_pile |-> <<>>]
    ELSE [card |-> NoCard, deck |-> d, discard_pile |-> dp]

\* handle_card_six on a GameState whose current card is cur
handle_card_six(d, dp, cur, seed) ==
    LET all == IF cur # NoCard THEN Append(d \o dp, cur) ELSE d \o dp
    IN  [deck |-> shuffle_deck(all, seed), discard_pile |-> <<>>, current_card |-> NoCard]

\* next_round that leaves the card as the current card
file_current_card_keeps_card(d, dp, cur, seed) ==
    [deck |-> d, discard_pile |-> dp, current_card |-> cur]

\* next_round's handling of the current card: take() empties current_card
\* before handle_card_six runs
file_current_card(d, dp, cur, seed) ==
    IF cur = NoCard THEN [deck |-> d, discard_pile |-> dp, current_card |-> NoCard]
    ELSE IF cur.kind = "Six" THEN handle_card_six(d, dp, NoCard, seed)
    ELSE [deck |-> d, discard_pile |-> Append(dp, cur), current_card |-> NoCard]

\* the call made last and whether it returned Ok / Some
Returned(op, ok) == [op |-> op, ok |-> ok]

\* car windows on the sheets of the joined players
WindowCount(ps) ==
    LET n[i \in 0..MaxPlayers] ==
            IF i = 0 THEN 0
            ELSE n[i - 1] + (IF i \in DOMAIN ps
                             THEN Cardinality(DOMAIN ps[i].train_cars) * Windows
                             ELSE 0)
    IN  n[MaxPlayers]

(***************************************************************************)
(* The server: GameServer, its registry of GameSessions and the            *)
(* handle_connection tasks.  A session is kept here by what the session    *)
(* layer reads and writes: its city, the keys of GameSession.players       *)
(* (conns) and of GameState.players (sheets), the number of operations     *)
(* applied to its GameState (ops) and the task holding its Mutex (holder,  *)
(* 0 when free).                                                           *)
(***************************************************************************)
\* the connections the server has accepted, one task each
Tasks == {1, 2}

\* players.len() < 6 in find_or_create_session
SessionCapacity == 6

\* Option::None of a task's player_id and game_session
NoId == 0

NewTask ==
    [pc |-> "idle", city |-> "", player_id |-> NoId, game_session |-> NoId,
     new_player_id |-> NoId, session |-> NoId, to_visit |-> {}]

\* GameSession::new(city, conductor)
GameSession_new(c, conductor) ==
    [city |-> c, conductor |-> conductor, conns |-> {}, senders |-> EmptyMap,
     sheets |-> {}, ops |-> 0, holder |-> NoId]

\* no message
NoMessage == [id |-> NoId, kind |-> "", session |-> NoId, audience |-> {}]

\* a task that is inside neither broadcast_message nor send_to_player
NotSending == [msg |-> NoMessage, to_visit |-> {}, locked |-> NoId, rest |-> <<>>]

\* no shuffle is being compared
NoRuns == <<>>

\* GameServer::new and no connection accepted yet
ServerStart ==
    /\ sessions = <<>>
    /\ registry = {}
    /\ rw_readers = {}
    /\ tasks = [t \in Tasks |-> NewTask]
    /\ next_player = 1
    /\ overlapped = FALSE
    /\ chan_holder = [t \in Tasks |-> NoId]
    /\ sending = [t \in Tasks |-> NotSending]
    /\ delivered = {}
    /\ skipped = {}
    /\ next_msg = 1

\* the values the GameState variables keep while the server is explored
GameIdle ==
    /\ city = "Amsterdam"
    /\ players = EmptyMap
    /\ current_card = NoCard
    /\ deck = <<>>
    /\ discard_pile = <<>>
    /\ round = 0
    /\ game_ended = FALSE
    /\ reveals = 0
    /\ ret = [op |-> "new", ok |-> TRUE]

\* the JoinGame arm of handle_connection, from find_or_create_session to the reply
JoinPcs == {"read_wait", "scan", "write_wait", "add_wait", "adding", "reply"}

\* a lock that never waits
MutexFree_never_waits(s) == TRUE

\* Mutex::lock().await returns only when no task holds the session's mutex
MutexFree(s) == sessions[s].holder = NoId

\* the test with <= for <
HasFreeSlot_off_by_one(sess, c) ==
    sess.city = c /\ Cardinality(sess.conns) <= SessionCapacity

\* the test of the scan loop of find_or_create_session
HasFreeSlot(sess, c) == sess.city = c /\ Cardinality(sess.conns) < SessionCapacity

\* a scan that sees no session at all
SessionsToScan_none == {}

\* sessions.values() under the read lock: the sessions inserted so far
SessionsToScan == registry

\* tasks inside find_or_create_session, which may each create a session
Searching == {t \in Tasks : tasks[t].pc \in {"read_wait", "scan", "write_wait"}}

OpsApplied == LET n[i \in 0..Len(sessions)] ==
                      IF i = 0 THEN 0 ELSE n[i - 1] + sessions[i].ops
              IN  n[Len(sessions)]

\* the server steps leave the variables of the GameState API alone; the steps
\* that send on a channel are those of SpecDelivery
GameUntouched == UNCHANGED <<gameVars, reveals, ret, channelVars, shuffleVars>>

\* Message::Text(JoinGame { city }) arrives: a fresh player id, then
\* find_or_create_session waits for the registry's read lock
RecvJoinGame(t) ==
    /\ tasks[t].pc = "idle"
    /\ next_player <= MaxJoins
    /\ Len(sessions) + Cardinality(Searching) < MaxSessions
    /\ \E c \in Cities :
        tasks' = [tasks EXCEPT ![t].pc = "read_wait", ![t].city = c,
                               ![t].new_player_id = next_player,
                               ![t].player_id = next_player]
    /\ next_player' = next_player + 1
    /\ overlapped' = (overlapped \/ \E u \in Tasks \ {t} : tasks[u].pc \in JoinPcs)
    /\ UNCHANGED <<sessions, registry, rw_readers>>
    /\ GameUntouched

\* self.sessions.read().await
ReadRegistry(t) ==
    /\ tasks[t].pc = "read_wait"
    /\ rw_readers' = rw_readers \cup {t}
    /\ tasks' = [tasks EXCEPT ![t].pc = "scan", ![t].to_visit = SessionsToScan]
    /\ UNCHANGED <<sessions, registry, next_player, overlapped>>
    /\ GameUntouched

\* one iteration of the scan loop: lock the session, test it, unlock it
ScanSession(t) ==
    /\ tasks[t].pc = "scan"
    /\ \E s \in tasks[t].to_visit :
        /\ MutexFree(s)
        /\ IF HasFreeSlot(sessions[s], tasks[t].city)
           THEN /\ tasks' = [tasks EXCEPT ![t].pc = "add_wait", ![t].session = s,
                                          ![t].to_visit = {}]
                /\ rw_readers' = rw_readers \ {t}
           ELSE /\ tasks' = [tasks EXCEPT ![t].to_visit = @ \ {s}]
                /\ UNCHANGED rw_readers
    /\ UNCHANGED <<sessions, registry, next_player, overlapped>>
    /\ GameUntouched

\* a scan whose read guard lives on to the end of find_or_create_session
ReadersAfterScan_guard_kept(t) == rw_readers

\* drop(sessions): the read guard is given up before the write lock is asked for
ReadersAfterScan(t) == rw_readers \ {t}

\* the loop ends without a match: drop(sessions)
ScanExhausted(t) ==
    /\ tasks[t].pc = "scan"
    /\ tasks[t].to_visit = {}
    /\ rw_readers' = ReadersAfterScan(t)
    /\ tasks' = [tasks EXCEPT ![t].pc = "write_wait"]
    /\ UNCHANGED <<sessions, registry, next_player, overlapped>>
    /\ GameUntouched

\* GameSession::new, self.sessions.write().await, insert
InsertSession(t) ==
    /\ tasks[t].pc = "write_wait"
    /\ rw_readers = {}
    /\ sessions' = Append(sessions, GameSession_new(tasks[t].city, tasks[t].new_player_id))
    /\ registry' = registry \cup {Len(sessions) + 1}
    /\ tasks' = [tasks EXCEPT ![t].pc = "add_wait", ![t].session = Len(sessions) + 1]
    /\ UNCHANGED <<rw_readers, next_player, overlapped>>
    /\ GameUntouched

\* session.lock().await before add_player
LockSessionForAdd(t) ==
    /\ tasks[t].pc = "add_wait"
    /\ MutexFree(tasks[t].session)
    /\ sessions' = [sessions EXCEPT ![tasks[t].session].holder = t]
    /\ tasks' = [tasks EXCEPT ![t].pc = "adding"]
    /\ UNCHANGED <<registry, rw_readers, next_player, overlapped>>
    /\ GameUntouched

\* GameSession::add_player, then the guard is dropped
SessionAddPlayer(t) ==
    /\ tasks[t].pc = "adding"
    /\ LET s == tasks[t].session
           p == tasks[t].new_player_id
       IN  /\ sessions' = [sessions EXCEPT ![s].sheets = @ \cup {p},
                                           ![s].conns = @ \cup {p},
                                           ![s].senders = Insert(@, p, t),
                                           ![s].holder = NoId]
           /\ tasks' = [tasks EXCEPT ![t].pc = "reply", ![t].game_session = s]
    /\ UNCHANGED <<registry, rw_readers, next_player, overlapped>>
    /\ GameUntouched

\* session.lock().await.game_state.id, then GameJoined on the own sender
SendGameJoined(t) ==
    /\ tasks[t].pc = "reply"
    /\ MutexFree(tasks[t].session)
    /\ tasks' = [tasks EXCEPT ![t].pc = "idle", ![t].city = "", ![t].new_player_id = NoId,
                               ![t].session = NoId]
    /\ UNCHANGED <<sessions, registry, rw_readers, next_player, overlapped>>
    /\ GameUntouched

\* Message::Text(PlayerAction) or Message::Text(StartGame) arrives on a
\* connection that has joined
RecvOperation(t) ==
    /\ tasks[t].pc = "idle"
    /\ tasks[t].game_session # NoId
    /\ OpsApplied < MaxOps
    /\ \E op \in {"act_wait", "start_wait"} : tasks' = [tasks EXCEPT ![t].pc = op]
    /\ UNCHANGED <<sessions, registry, rw_readers, next_player, overlapped>>
    /\ GameUntouched

\* session.lock().await before handle_player_action or start_new_round
LockSessionForOperation(t) ==
    /\ tasks[t].pc \in {"act_wait", "start_wait"}
    /\ MutexFree(tasks[t].game_session)
    /\ sessions' = [sessions EXCEPT ![tasks[t].game_session].holder = t]
    /\ tasks' = [tasks EXCEPT ![t].pc = IF @ = "act_wait" THEN "acting" ELSE "starting"]
    /\ UNCHANGED <<registry, rw_readers, next_player, overlapped>>
    /\ GameUntouched

\* handle_player_action or start_new_round runs, then the guard is dropped
SessionOperation(t) ==
    /\ tasks[t].pc \in {"acting", "starting"}
    /\ sessions' = [sessions EXCEPT ![tasks[t].game_session].ops = @ + 1,
                                    ![tasks[t].game_session].holder = NoId]
    /\ tasks' = [tasks EXCEPT ![t].pc = "idle"]
    /\ UNCHANGED <<registry, rw_readers, next_player, overlapped>>
    /\ GameUntouched

\* a handler that takes the player of the connection out of its session
SessionsAfterClose_removes_player(t) ==
    IF tasks[t].game_session = NoId THEN sessions
    ELSE [sessions EXCEPT ![tasks[t].game_session].conns = @ \ {tasks[t].player_id}]

\* the sessions once the loop of handle_connection has been left: break is
\* all the Close and Err arms do
SessionsAfterClose(t) == sessions

\* Message::Close or a read error ends the task; nothing is removed
CloseConnection(t) ==
    /\ tasks[t].pc = "idle"
    /\ tasks' = [tasks EXCEPT ![t].pc = "closed"]
    /\ sessions' = SessionsAfterClose(t)
    /\ UNCHANGED <<registry, rw_readers, next_player, overlapped>>
    /\ GameUntouched

(***************************************************************************)
(* The GameState API as a state machine.                                   *)
(***************************************************************************)
\* GameState::new(city, conductor)
Init ==
    /\ city \in Cities
    /\ players = EmptyMap
    /\ current_card = NoCard
    /\ \E seed \in Seeds : deck = shuffle_deck(create_deck, seed)
    /\ discard_pile = <<>>
    /\ round = 0
    /\ game_ended = FALSE
    /\ reveals = 0
    /\ ret = Returned("new", TRUE)
    /\ ServerStart
    /\ shuffle_runs = NoRuns

\* GameState::add_player with a fresh Uuid
AddPlayer ==
    /\ \E p \in PlayerIds \ DOMAIN players :
        /\ WindowCount(Insert(players, p, PlayerSheet_new(subway_map))) <= MaxWindows
        /\ players' = Insert(players, p, PlayerSheet_new(subway_map))
    /\ ret' = Returned("add_player", TRUE)
    /\ UNCHANGED <<city, current_card, deck, discard_pile, round, game_ended, reveals>>
    /\ UNCHANGED <<serverVars, channelVars, shuffleVars>>

\* GameState::reveal_card
RevealCard ==
    /\ reveals < MaxReveals
    /\ \E seed \in Seeds :
        LET r == draw_card(deck, discard_pile, seed)
        IN  /\ deck' = r.deck
            /\ discard_pile' = r.discard_pile
            /\ current_card' = IF r.card # NoCard THEN r.card ELSE current_card
            /\ ret' = Returned("reveal_card", r.card # NoCard)
    /\ reveals' = reveals + 1
    /\ UNCHANGED <<city, players, round, game_ended>>
    /\ UNCHANGED <<serverVars, channelVars, shuffleVars>>

\* GameState::next_round
NextRound ==
    /\ round < MaxRound
    /\ round' = round + 1
    /\ \E seed \in Seeds :
        LET r == file_current_card(deck, discard_pile, current_card, seed)
        IN  /\ deck' = r.deck
            /\ discard_pile' = r.discard_pile
            /\ current_card' = r.current_card
    /\ game_ended' = IF check_game_end(players) THEN TRUE ELSE game_ended
    /\ ret' = Returned("next_round", TRUE)
    /\ UNCHANGED <<city, players, reveals>>
    /\ UNCHANGED <<serverVars, channelVars, shuffleVars>>

\* GameState::process_player_action
ProcessPlayerAction ==
    /\ \E p \in PlayerIds, action \in PlayerActions(subway_map) :
        LET r == process_player_action(players, current_card, p, action, subway_map)
        IN  /\ players' = r.players
            /\ ret' = Returned("process_player_action", r.ok)
    /\ UNCHANGED <<city, current_card, deck, discard_pile, round, game_ended, reveals>>
    /\ UNCHANGED <<serverVars, channelVars, shuffleVars>>

vars == <<city, players, current_card, deck, discard_pile, round, game_ended, reveals, ret,
          sessions, registry, rw_readers, tasks, next_player, overlapped,
          chan_holder, sending, delivered, skipped, next_msg, shuffle_runs>>

Next == AddPlayer \/ RevealCard \/ NextRound \/ ProcessPlayerAction

Spec == Init /\ [][Next]_vars

(***************************************************************************)
(* The server as a state machine: the tasks interleave at their awaits.    *)
(***************************************************************************)
ServerInit == GameIdle /\ ServerStart /\ shuffle_runs = NoRuns

ServerNext ==
    \E t \in Tasks :
        \/ RecvJoinGame(t)
        \/ ReadRegistry(t)
        \/ ScanSession(t)
        \/ ScanExhausted(t)
        \/ InsertSession(t)
        \/ LockSessionForAdd(t)
        \/ SessionAddPlayer(t)
        \/ SendGameJoined(t)
        \/ RecvOperation(t)
        \/ LockSessionForOperation(t)
        \/ SessionOperation(t)
        \/ CloseConnection(t)

SpecServer == ServerInit /\ [][ServerNext]_vars

(***************************************************************************)
(* The rules engine called directly: process_player_action with whatever   *)
(* map the caller passes, on the sheets of a game in its first round.      *)
(***************************************************************************)
\* GameState::process_player_action, the map being an argument of the call
ProcessPlayerActionOn ==
    /\ \E p \in PlayerIds, map \in Maps, action \in PlayerActions(subway_map) :
        LET r == process_player_action(players, current_card, p, action, map)
        IN  /\ players' = r.players
            /\ ret' = Returned("process_player_action", r.ok)
    /\ UNCHANGED <<city, current_card, deck, discard_pile, round, game_ended, reveals>>
    /\ UNCHANGED <<serverVars, channelVars, shuffleVars>>

EngineNext == AddPlayer \/ RevealCard \/ ProcessPlayerActionOn

SpecEngine == Init /\ [][EngineNext]_vars

(***************************************************************************)
(* One PlayerSheet under ChooseLine: a line of five stations, any of them   *)
(* marked beforehand, and any card of the deck revealed.                   *)
(***************************************************************************)
\* a SubwayMap value with one line of five stations
ExampleMap ==
    [stations |-> [s \in {"g1", "g2", "g3", "g4", "g5"} |-> [lines |-> <<"green">>]],
     lines |-> [l \in {"green"} |->
                   [stations |-> <<"g1", "g2", "g3", "g4", "g5">>,
                    completion_points |-> <<5, 2>>]]]

\* the cards of the deck
Cards == {create_deck[i] : i \in 1..Len(create_deck)}

\* the sheet of a player who marked the stations of the set marked one by one
\* (MarkFreeRideStation marks any station that is not yet marked)
SheetWithMarks(map, marked) ==
    [PlayerSheet_new(map) EXCEPT !.marked_stations = [st \in marked |-> Cross]]

\* the result of the call made last with the number of the "Marked {} stations" message
ReturnedMarks(op, ok, messages) ==
    [op |-> op, ok |-> ok,
     marked |-> IF \E i \in 1..Len(messages) : messages[i].type = "PlayerActionResult"
                THEN (CHOOSE m \in {messages[i] : i \in 1..Len(messages)} :
                          m.type = "PlayerActionResult").n
                ELSE 0]

SheetInit ==
    /\ city = "Amsterdam"
    /\ \E marked \in SUBSET DOMAIN ExampleMap.stations :
           players = Insert(EmptyMap, 1, SheetWithMarks(ExampleMap, marked))
    /\ current_card \in Cards
    /\ deck = <<>>
    /\ discard_pile = <<>>
    /\ round = 0
    /\ game_ended = FALSE
    /\ reveals = 1
    /\ ret = ReturnedMarks("reveal_card", TRUE, <<>>)
    /\ ServerStart
    /\ shuffle_runs = NoRuns

\* process_player_action(player, ChooseLine { line_id }, map) on the example map
ChooseLineOnSheet ==
    /\ \E l \in DOMAIN ExampleMap.lines :
        LET r == process_player_action(players, current_card, 1, ChooseLine(l, 0), ExampleMap)
        IN  /\ players' = r.players
            /\ ret' = ReturnedMarks("process_player_action", r.ok, r.messages)
    /\ UNCHANGED <<city, current_card, deck, discard_pile, round, game_ended, reveals>>
    /\ UNCHANGED <<serverVars, channelVars, shuffleVars>>

SheetNext == ChooseLineOnSheet

SpecSheet == SheetInit /\ [][SheetNext]_vars

(***************************************************************************)
(* The deck of a game without players, drawn until it is empty.            *)
(***************************************************************************)
\* GameState::reveal_card
DeckRevealCard ==
    /\ reveals < MaxDraws
    /\ \E seed \in Seeds :
        LET r == draw_card(deck, discard_pile, seed)
        IN  /\ deck' = r.deck
            /\ discard_pile' = r.discard_pile
            /\ current_card' = IF r.card # NoCard THEN r.card ELSE current_card
            /\ ret' = Returned("reveal_card", r.card # NoCard)
    /\ reveals' = reveals + 1
    /\ UNCHANGED <<city, players, round, game_ended>>
    /\ UNCHANGED <<serverVars, channelVars, shuffleVars>>

\* GameState::next_round
DeckNextRound ==
    /\ round < MaxFiled
    /\ round' = round + 1
    /\ \E seed \in Seeds :
        LET r == file_current_card(deck, discard_pile, current_card, seed)
        IN  /\ deck' = r.deck
            /\ discard_pile' = r.discard_pile
            /\ current_card' = r.current_card
    /\ game_ended' = IF check_game_end(players) THEN TRUE ELSE game_ended
    /\ ret' = Returned("next_round", TRUE)
    /\ UNCHANGED <<city, players, reveals>>
    /\ UNCHANGED <<serverVars, channelVars, shuffleVars>>

DeckNext == DeckRevealCard \/ DeckNextRound

SpecDeck == Init /\ [][DeckNext]_vars

(***************************************************************************)
(* shuffle_deck, one loop iteration per step, executed twice on one input. *)
(* shuffle_runs holds the input of both executions and, for each, the      *)
(* slice being shuffled, the local rng_state and the loop index i.         *)
(***************************************************************************)
Runs == {1, 2}

\* the decks the shuffle is applied to: the full deck and a short slice
ShuffleInputs == {create_deck, <<Number(1), Six, Transfer>>}

\* the width of usize in bytes on the targets the crate is built for
UsizeWidths == {4, 8}

NotStarted == [started |-> FALSE, deck |-> <<>>, rng_state |-> <<>>, i |-> 0]

\* a generator state kept between calls instead of a local of the call
InitialRngState_shared_between_calls(seed) ==
    U64(seed + Cardinality({r \in Runs : shuffle_runs.run[r].started}))

\* let mut rng_state = seed
InitialRngState(seed) == U64(seed)

\* (rng_state as usize) % (i + 1) on a target whose usize has w bytes
IndexFor(rng_state, i, w) == ModFrom(rng_state, i + 1, w, 0)

ShuffleInit ==
    /\ GameIdle
    /\ ServerStart
    /\ \E d \in ShuffleInputs, seed \in Seeds, w \in UsizeWidths :
        shuffle_runs = [input |-> d, seed |-> seed, usize |-> w,
                        run |-> [r \in Runs |-> NotStarted]]

\* shuffle_deck is entered: the loop starts at the last index
StartShuffle(r) ==
    /\ ~shuffle_runs.run[r].started
    /\ shuffle_runs' = [shuffle_runs EXCEPT
            !.run[r] = [started |-> TRUE, deck |-> shuffle_runs.input,
                        rng_state |-> InitialRngState(shuffle_runs.seed),
                        i |-> Len(shuffle_runs.input) - 1]]
    /\ UNCHANGED <<gameVars, reveals, ret, serverVars, channelVars>>

\* one iteration of the loop over (1..deck.len()).rev()
ShuffleIteration(r) ==
    LET run == shuffle_runs.run[r]
        s2 == LcgNext(run.rng_state)
        j == IndexFor(s2, run.i, shuffle_runs.usize)
    IN  /\ run.started
        /\ run.i >= 1
        /\ shuffle_runs' = [shuffle_runs EXCEPT
                !.run[r] = [started |-> TRUE, deck |-> Swap(run.deck, run.i + 1, j + 1),
                            rng_state |-> s2, i |-> run.i - 1]]
        /\ UNCHANGED <<gameVars, reveals, ret, serverVars, channelVars>>

ShuffleNext == \E r \in Runs : StartShuffle(r) \/ ShuffleIteration(r)

SpecShuffle == ShuffleInit /\ [][ShuffleNext]_vars

(***************************************************************************)
(* The GameState of one session as the server drives it, with every call   *)
(* recorded: ret holds the call made last, its arguments, what             *)
(* process_player_action returned and what handle_player_action or         *)
(* start_new_round passed on to broadcast_message and send_to_player.  The *)
(* server never calls next_round.                                          *)
(***************************************************************************)
\* seeds whose shuffles deal Six, FreeRide; Number(1), Transfer; Transfer,
\* Express(4) as the first two cards
CallSeeds == Seeds \cup {41}

\* no PlayerAction: the call was not process_player_action
NoAction == [kind |-> "", line_id |-> "", station_id |-> "", car_window_index |-> 0]

\* the recipients of broadcast_message
Everyone == 0

\* a message handed to broadcast_message (to = Everyone) or send_to_player
Routed(to, message) == [to |-> to, message |-> message]

\* GameMessage values the session layer builds itself
ErrorMessage(e) ==
    [type |-> "Error", player_id |-> 0, line_id |-> "", text |-> e, n |-> 0]
GameEndedMessage(scores) ==
    [type |-> "GameEnded", player_id |-> 0, line_id |-> "", text |-> "", n |-> 0,
     scores |-> scores]
CardRevealedMessage(card) ==
    [type |-> "CardRevealed", player_id |-> 0, line_id |-> "", text |-> "", n |-> 0,
     card |-> card]
GameStateMessage(card, ps) ==
    [type |-> "GameState", player_id |-> 0, line_id |-> "", text |-> "", n |-> 0,
     current_card |-> card, players |-> ps]

\* calculate_final_scores: one score for each player, or a panic when the
\* score of some sheet panics
calculate_final_scores(ps, map) ==
    {[panicked |-> \E p \in DOMAIN ps : f[p].panicked,
      scores |-> [p \in DOMAIN ps |-> f[p].score]] :
        f \in {g \in [DOMAIN ps -> UNION {calculate_score(ps[p], map) : p \in DOMAIN ps}] :
                  \A p \in DOMAIN ps : g[p] \in calculate_score(ps[p], map)}}

\* the match arm of handle_player_action that passes every message on
RouteMessages_all_broadcast(messages, player_id) ==
    [i \in 1..Len(messages) |-> Routed(Everyone, messages[i])]

\* the for loop of handle_player_action over the messages of an Ok result
RouteMessages(messages, player_id) ==
    [i \in 1..Len(messages) |->
        IF messages[i].type = "LineCompleted"
        THEN Routed(Everyone, messages[i])
        ELSE Routed(player_id, messages[i])]

\* the Err arm that tells every player
RouteError_to_everyone(player_id, e) == <<Routed(Everyone, ErrorMessage(e))>>

\* the Err arm of handle_player_action
RouteError(player_id, e) == <<Routed(player_id, ErrorMessage(e))>>

\* the test of handle_player_action made before the action is applied
GameEndsAfter_tested_before(before, after) == check_game_end(before)

\* if self.game_state.check_game_end() after process_player_action
GameEndsAfter(before, after) == check_game_end(after)

\* handle_player_action once process_player_action has returned r on the
\* players before: the outcomes are what was passed on to be sent and
\* whether the task panicked on the way
handle_player_action(before, r, player_id, map) ==
    IF ~r.ok THEN {[panicked |-> FALSE, sent |-> RouteError(player_id, r.err)]}
    ELSE IF ~GameEndsAfter(before, r.players)
    THEN {[panicked |-> FALSE, sent |-> RouteMessages(r.messages, player_id)]}
    ELSE {[panicked |-> f.panicked,
           sent |-> IF f.panicked THEN RouteMessages(r.messages, player_id)
                    ELSE Append(RouteMessages(r.messages, player_id),
                                Routed(Everyone, GameEndedMessage(f.scores)))] :
            f \in calculate_final_scores(r.players, map)}

\* what ret records of a call
Call(op, ok, player, action, messages, err, sent, panicked) ==
    [op |-> op, ok |-> ok, player |-> player, action |-> action, messages |-> messages,
     err |-> err, sent |-> sent, panicked |-> panicked]

\* a call other than process_player_action
PlainCall(op, ok, sent) == Call(op, ok, 0, NoAction, <<>>, "", sent, FALSE)

\* the car windows filled on the sheets ps
FilledWindows(ps) ==
    Cardinality({w \in UNION {{<<p, l, i>> : l \in DOMAIN ps[p].train_cars, i \in 1..Windows} :
                                p \in DOMAIN ps} :
                    ps[w[1]].train_cars[w[2]][w[3]] # None})

CallsInit ==
    /\ city \in Cities
    /\ players = EmptyMap
    /\ current_card = NoCard
    /\ \E seed \in CallSeeds : deck = shuffle_deck(create_deck, seed)
    /\ discard_pile = <<>>
    /\ round = 0
    /\ game_ended = FALSE
    /\ reveals = 0
    /\ ret = Call("new", TRUE, 0, NoAction, <<>>, "", <<>>, FALSE)
    /\ ServerStart
    /\ shuffle_runs = NoRuns

\* a task that panicked inside handle_player_action makes no further call
Running == ~ret.panicked

\* GameSession::add_player
CallAddPlayer ==
    /\ Running
    /\ \E p \in PlayerIds \ DOMAIN players :
        /\ WindowCount(Insert(players, p, PlayerSheet_new(subway_map))) <= MaxWindows
        /\ players' = Insert(players, p, PlayerSheet_new(subway_map))
    /\ ret' = PlainCall("add_player", TRUE, <<>>)
    /\ UNCHANGED <<city, current_card, deck, discard_pile, round, game_ended, reveals>>
    /\ UNCHANGED <<serverVars, channelVars, shuffleVars>>

\* a snapshot cloned before reveal_card has set the current card
SnapshotCard_before_reveal(before, after) == before

\* the current card of self.game_state.clone(), cloned after reveal_card
SnapshotCard(before, after) == after

\* GameSession::start_new_round, called at most limit times: reveal_card,
\* then the two broadcasts if it returned a card
StartNewRound(limit) ==
    /\ Running
    /\ reveals < limit
    /\ \E seed \in Seeds :
        LET r == draw_card(deck, discard_pile, seed)
            cur == IF r.card # NoCard THEN r.card ELSE current_card
        IN  /\ deck' = r.deck
            /\ discard_pile' = r.discard_pile
            /\ current_card' = cur
            /\ ret' = PlainCall("reveal_card", r.card # NoCard,
                                IF r.card # NoCard
                                THEN <<Routed(Everyone, CardRevealedMessage(r.card)),
                                       Routed(Everyone,
                                              GameStateMessage(SnapshotCard(current_card, cur),
                                                               players))>>
                                ELSE <<>>)
    /\ reveals' = reveals + 1
    /\ UNCHANGED <<city, players, round, game_ended>>
    /\ UNCHANGED <<serverVars, channelVars, shuffleVars>>

CallStartNewRound == StartNewRound(MaxReveals)

\* GameSession::handle_player_action for the player of the connection:
\* process_player_action with the map of the session, then the messages are
\* passed on
CallHandlePlayerAction ==
    /\ Running
    /\ \E p \in DOMAIN players, action \in PlayerActions(subway_map) :
        LET r == process_player_action(players, current_card, p, action, subway_map)
        IN  /\ FilledWindows(r.players) <= MaxFills
            /\ players' = r.players
            /\ \E h \in handle_player_action(players, r, p, subway_map) :
                ret' = Call("process_player_action", r.ok, p, action, r.messages, r.err,
                            h.sent, h.panicked)
    /\ UNCHANGED <<city, current_card, deck, discard_pile, round, game_ended, reveals>>
    /\ UNCHANGED <<serverVars, channelVars, shuffleVars>>

CallsNext == CallAddPlayer \/ CallStartNewRound \/ CallHandlePlayerAction

SpecCalls == CallsInit /\ [][CallsNext]_vars

(***************************************************************************)
(* A session whose rounds are started until the deck is empty: the server  *)
(* never calls next_round, so nothing reaches the discard pile and the     *)
(* call after the last card finds nothing to reveal.                       *)
(***************************************************************************)
RoundsStartNewRound == StartNewRound(MaxStarts)

RoundsNext == CallAddPlayer \/ RoundsStartNewRound

SpecRounds == CallsInit /\ [][RoundsNext]_vars

(***************************************************************************)
(* The connection tasks with their sends.  Every PlayerConnection holds    *)
(* the sender of its connection behind a Mutex (chan_holder); the reply to *)
(* JoinGame, broadcast_message and send_to_player take it with try_lock    *)
(* and hold it while send().await runs.  The GameState of a session is     *)
(* not part of this specification: what process_player_action and          *)
(* reveal_card return is any of the shapes they can return.                *)
(***************************************************************************)
\* the message lists handle_player_action can have to send: the Error, or
\* the messages of process_player_action in their order, then GameEnded if
\* the game has ended
ActionOutcomes ==
    {<<"Error">>, <<"PlayerActionResult">>, <<"LineCompleted">>,
     <<"LineCompleted", "PlayerActionResult">>, <<"PlayerActionResult", "GameEnded">>,
     <<"LineCompleted", "GameEnded">>,
     <<"LineCompleted", "PlayerActionResult", "GameEnded">>}

\* start_new_round: reveal_card returned a card, or None
StartOutcomes == {<<"CardRevealed", "GameState">>, <<>>}

\* the messages handle_player_action passes to broadcast_message
Broadcast == {"LineCompleted", "GameEnded", "CardRevealed", "GameState"}

\* the players a message is for: self.players.values(), or
\* self.players.get(&player_id)
Audience(kind, s, player_id) ==
    IF kind \in Broadcast THEN sessions[s].conns ELSE sessions[s].conns \cap {player_id}

\* the k-th message of a handler that sends kinds, numbered from next_msg
MessageOf(kinds, k, s, player_id) ==
    [id |-> next_msg + k - 1, kind |-> kinds[k], session |-> s,
     audience |-> Audience(kinds[k], s, player_id)]

\* the loop moves on to the next message once the channels of this one are
\* all visited
Advance(snd) ==
    IF snd.to_visit = {} /\ snd.locked = NoId /\ snd.rest # <<>>
    THEN [msg |-> Head(snd.rest), to_visit |-> Head(snd.rest).audience,
          locked |-> NoId, rest |-> Tail(snd.rest)]
    ELSE snd

\* a busy channel stays on the list and is tried again
LeftAfterSkip_retry_busy(to_visit, p) == to_visit

\* the for loop goes on to the next player whether or not try_lock succeeded
LeftAfterSkip(to_visit, p) == to_visit \ {p}

\* the sender a PlayerConnection of session s holds for player p
ChannelOf(s, p) == sessions[s].senders[p]

\* a connection sends JoinGame; the model follows MaxDeliveryJoins joins
DeliveryJoin(t) ==
    /\ next_player <= MaxDeliveryJoins
    /\ RecvJoinGame(t)

\* session.lock().await.game_state.id: the guard is a temporary of the
\* statement that builds the response and is dropped at its end, so the
\* tasks of the other worker threads run before the sender is tried
ReadGameId(t) ==
    /\ tasks[t].pc = "reply"
    /\ MutexFree(tasks[t].session)
    /\ tasks' = [tasks EXCEPT ![t].pc = "reply_send"]
    /\ UNCHANGED <<sessions, registry, rw_readers, next_player, overlapped>>
    /\ GameUntouched

\* sender.try_lock() on the own sender: GameJoined is sent if the lock is
\* free and dropped if it is not
ReplyGameJoined(t) ==
    /\ tasks[t].pc = "reply_send"
    /\ LET m == [id |-> next_msg, kind |-> "GameJoined", session |-> tasks[t].session,
                 audience |-> {tasks[t].new_player_id}]
       IN  IF chan_holder[t] = NoId
           THEN /\ chan_holder' = [chan_holder EXCEPT ![t] = t]
                /\ sending' = [sending EXCEPT ![t] =
                        [msg |-> m, to_visit |-> {}, locked |-> tasks[t].new_player_id,
                         rest |-> <<>>]]
                /\ tasks' = [tasks EXCEPT ![t].pc = "replying"]
                /\ UNCHANGED skipped
           ELSE /\ skipped' = skipped \cup {[msg |-> m, to |-> tasks[t].new_player_id]}
                /\ tasks' = [tasks EXCEPT ![t].pc = "idle", ![t].city = "",
                                           ![t].new_player_id = NoId, ![t].session = NoId]
                /\ UNCHANGED <<chan_holder, sending>>
    /\ next_msg' = next_msg + 1
    /\ UNCHANGED <<sessions, registry, rw_readers, next_player, overlapped, delivered>>
    /\ UNCHANGED <<gameVars, reveals, ret, shuffleVars>>

\* handle_player_action or start_new_round runs on the GameState and has
\* its messages to send, one after the other
DispatchOperation(t) ==
    /\ tasks[t].pc \in {"acting", "starting"}
    /\ \E kinds \in IF tasks[t].pc = "acting" THEN ActionOutcomes ELSE StartOutcomes :
        /\ sending' = [sending EXCEPT ![t] =
                Advance([msg |-> NoMessage, to_visit |-> {}, locked |-> NoId,
                         rest |-> [k \in 1..Len(kinds) |->
                                     MessageOf(kinds, k, tasks[t].game_session,
                                               tasks[t].player_id)]])]
        /\ next_msg' = next_msg + Len(kinds)
    /\ sessions' = [sessions EXCEPT ![tasks[t].game_session].ops = @ + 1]
    /\ tasks' = [tasks EXCEPT ![t].pc = "sending"]
    /\ UNCHANGED <<registry, rw_readers, next_player, overlapped>>
    /\ UNCHANGED <<chan_holder, delivered, skipped>>
    /\ UNCHANGED <<gameVars, reveals, ret, shuffleVars>>

\* one iteration of the loop of broadcast_message, or the body of
\* send_to_player: player.sender.try_lock()
AttemptChannel(t) ==
    /\ tasks[t].pc = "sending"
    /\ sending[t].locked = NoId
    /\ \E p \in sending[t].to_visit :
        LET c == ChannelOf(sending[t].msg.session, p)
        IN  IF chan_holder[c] = NoId
            THEN /\ chan_holder' = [chan_holder EXCEPT ![c] = t]
                 /\ sending' = [sending EXCEPT ![t].locked = p, ![t].to_visit = @ \ {p}]
                 /\ UNCHANGED skipped
            ELSE /\ skipped' = skipped \cup {[msg |-> sending[t].msg, to |-> p]}
                 /\ sending' = [sending EXCEPT ![t] =
                         Advance([@ EXCEPT !.to_visit = LeftAfterSkip(@, p)])]
                 /\ UNCHANGED chan_holder
    /\ UNCHANGED <<delivered, next_msg>>
    /\ UNCHANGED serverVars
    /\ UNCHANGED <<gameVars, reveals, ret, shuffleVars>>

\* sender.send(Message::Text(..)).await returns and the guard of the sender
\* is dropped
FinishSend(t) ==
    /\ tasks[t].pc \in {"sending", "replying"}
    /\ sending[t].locked # NoId
    /\ delivered' = delivered \cup {[msg |-> sending[t].msg, to |-> sending[t].locked]}
    /\ chan_holder' = [chan_holder EXCEPT
            ![ChannelOf(sending[t].msg.session, sending[t].locked)] = NoId]
    /\ IF tasks[t].pc = "replying"
       THEN /\ sending' = [sending EXCEPT ![t] = NotSending]
            /\ tasks' = [tasks EXCEPT ![t].pc = "idle", ![t].city = "",
                                       ![t].new_player_id = NoId, ![t].session = NoId]
       ELSE /\ sending' = [sending EXCEPT ![t] = Advance([@ EXCEPT !.locked = NoId])]
            /\ UNCHANGED tasks
    /\ UNCHANGED <<skipped, next_msg>>
    /\ UNCHANGED <<sessions, registry, rw_readers, next_player, overlapped>>
    /\ UNCHANGED <<gameVars, reveals, ret, shuffleVars>>

\* the handler returns and the guard of the session is dropped
FinishOperation(t) ==
    /\ tasks[t].pc = "sending"
    /\ sending[t].to_visit = {}
    /\ sending[t].locked = NoId
    /\ sending[t].rest = <<>>
    /\ sending' = [sending EXCEPT ![t] = NotSending]
    /\ sessions' = [sessions EXCEPT ![tasks[t].game_session].holder = NoId]
    /\ tasks' = [tasks EXCEPT ![t].pc = "idle"]
    /\ UNCHANGED <<registry, rw_readers, next_player, overlapped>>
    /\ UNCHANGED <<chan_holder, delivered, skipped, next_msg>>
    /\ UNCHANGED <<gameVars, reveals, ret, shuffleVars>>

DeliveryNext ==
    \E t \in Tasks :
        \/ DeliveryJoin(t)
        \/ ReadRegistry(t)
        \/ ScanSession(t)
        \/ ScanExhausted(t)
        \/ InsertSession(t)
        \/ LockSessionForAdd(t)
        \/ SessionAddPlayer(t)
        \/ ReadGameId(t)
        \/ ReplyGameJoined(t)
        \/ RecvOperation(t)
        \/ LockSessionForOperation(t)
        \/ DispatchOperation(t)
        \/ AttemptChannel(t)
        \/ FinishSend(t)
        \/ FinishOperation(t)
        \/ CloseConnection(t)

SpecDelivery == ServerInit /\ [][DeliveryNext]_vars

(***************************************************************************)
(* The same tasks under the scheduling of the runtime: a task that is able *)
(* to go on is polled again and goes on, a send on a socket returns, and a *)
(* lock that stays free is given to a task that waits for it.  What the    *)
(* clients send, and whether they close, is up to them.                    *)
(***************************************************************************)
TaskStep(t) ==
    \/ ReadRegistry(t)
    \/ ScanSession(t)
    \/ ScanExhausted(t)
    \/ InsertSession(t)
    \/ LockSessionForAdd(t)
    \/ SessionAddPlayer(t)
    \/ ReadGameId(t)
    \/ ReplyGameJoined(t)
    \/ LockSessionForOperation(t)
    \/ DispatchOperation(t)
    \/ AttemptChannel(t)
    \/ FinishSend(t)
    \/ FinishOperation(t)

SpecFair == ServerInit /\ [][DeliveryNext]_vars /\ \A t \in Tasks : WF_vars(TaskStep(t))

(***************************************************************************)
(* Properties.                                                             *)
(***************************************************************************)
Present(card) == IF card # NoCard THEN 1 ELSE 0
Filled(sheet, l) == {i \in 1..Len(sheet.train_cars[l]) : sheet.train_cars[l][i] # None}
AllMarked(sheet, l, map) ==
    \A i \in 1..Len(map.lines[l].stations) :
        map.lines[l].stations[i] \in DOMAIN sheet.marked_stations
Occurrences(seq, x) == Cardinality({i \in 1..Len(seq) : seq[i] = x})
LastCall(op) == ret.op = op

\* C1: after any sequence of reveal_card and next_round calls the deck, the
\* discard pile and the current card together hold 16 cards.
DeckConservation ==
    Len(deck) + Len(discard_pile) + Present(current_card) = Len(create_deck)

\* C2: a station mark of a player, once set, is never removed and never
\* changes its kind, whatever call follows.
MarksAreKept ==
    [][\A p \in DOMAIN players : \A st \in DOMAIN players[p].marked_stations :
          /\ p \in DOMAIN players'
          /\ st \in DOMAIN players'[p].marked_stations
          /\ players'[p].marked_stations[st].kind = players[p].marked_stations[st].kind]_vars

\* C3: a process_player_action call that returns an error leaves the
\* GameState as it was before the call.
ErrorLeavesGameStateUnchanged ==
    [][(ret'.op = "process_player_action" /\ ~ret'.ok) => UNCHANGED gameVars]_vars

\* C4: once game_ended is true every process_player_action call is rejected
\* (stated for the games that have a player).
EndedRejectsActions ==
    (game_ended /\ DOMAIN players # {} /\ LastCall("process_player_action")) => ~ret.ok

\* C5: no session ever holds more than 6 registered players.
CapacityRespected ==
    \A s \in 1..Len(sessions) :
        /\ Cardinality(sessions[s].conns) <= SessionCapacity
        /\ Cardinality(sessions[s].sheets) <= SessionCapacity

TotalJoined ==
    LET n[i \in 0..Len(sessions)] ==
            IF i = 0 THEN 0 ELSE n[i - 1] + Cardinality(sessions[i].conns)
    IN  n[Len(sessions)]
NoJoinInProgress == \A t \in Tasks : tasks[t].pc \notin JoinPcs
\* seven joins, all for one city, each finished before the next began
SevenSequentialJoins ==
    /\ ~overlapped
    /\ NoJoinInProgress
    /\ TotalJoined = SessionCapacity + 1
    /\ \A s \in 1..Len(sessions) : sessions[s].city = sessions[1].city

\* C6: seven JoinGame requests for one city, processed one after another on
\* an empty registry, leave exactly two sessions: the first with 6 players,
\* the second with 1.
SequentialJoinsFillThenOverflow ==
    SevenSequentialJoins =>
        /\ Len(sessions) = 2
        /\ registry = {1, 2}
        /\ Cardinality(sessions[1].conns) = SessionCapacity
        /\ Cardinality(sessions[2].conns) = 1
        /\ sessions[1].sheets = sessions[1].conns
        /\ sessions[2].sheets = sessions[2].conns

C6Witness == SevenSequentialJoins /\ Len(sessions) = 2

\* task t is inside add_player, handle_player_action or start_new_round of session s
InOperation(t, s) ==
    \/ tasks[t].pc = "adding" /\ tasks[t].session = s
    \/ tasks[t].pc \in {"acting", "starting"} /\ tasks[t].game_session = s
Exclusive ==
    \A s \in 1..Len(sessions) : \A t \in Tasks :
        InOperation(t, s) => sessions[s].holder = t
SessionState(s) == <<s.city, s.conns, s.sheets, s.ops>>

\* C7: add_player, handle_player_action and start_new_round run on a session
\* only in the task that holds the session's mutex, so at most one of them
\* runs on a session at a time and every change of the session's state is
\* made by the holder of the mutex.
SessionOperationsAreExclusive ==
    [][/\ Exclusive
       /\ Exclusive'
       /\ \A s \in 1..Len(sessions) :
            SessionState(sessions'[s]) # SessionState(sessions[s]) =>
                /\ sessions[s].holder # NoId
                /\ InOperation(sessions[s].holder, s)]_vars

\* a task waits for the mutex of a session another task is operating on
C7Witness ==
    \E t \in Tasks, u \in Tasks :
        /\ t # u
        /\ tasks[t].pc \in {"acting", "starting"}
        /\ tasks[u].pc \in {"act_wait", "start_wait", "add_wait"}
        /\ (IF tasks[u].pc = "add_wait" THEN tasks[u].session ELSE tasks[u].game_session)
               = tasks[t].game_session

\* C8: the windows of a line stay 4 and a filled window keeps its value.
WindowsAreKept ==
    [][\A p \in DOMAIN players : \A l \in DOMAIN players[p].train_cars :
          /\ p \in DOMAIN players'
          /\ l \in DOMAIN players'[p].train_cars
          /\ Len(players[p].train_cars[l]) = Windows
          /\ Len(players'[p].train_cars[l]) = Windows
          /\ \A i \in Filled(players[p], l) :
                players'[p].train_cars[l][i] = players[p].train_cars[l][i]]_vars

\* a line with two windows filled from two different cards
C8Witness ==
    \E p \in DOMAIN players : \E l \in DOMAIN players[p].train_cars :
        /\ {1, 2} \subseteq Filled(players[p], l)
        /\ players[p].train_cars[l][1] # players[p].train_cars[l][2]

\* C9: a line occurs at most once in completed_lines and only with all its
\* stations marked; check_line_completion returns true and appends the line
\* only when all its stations are marked and it is not yet completed, and a
\* further call returns false and appends nothing.
SingleCompletion ==
    \A p \in DOMAIN players : \A l \in DOMAIN subway_map.lines :
        LET sheet == players[p]
            c == check_line_completion(sheet, l, subway_map)
            again == check_line_completion(c.sheet, l, subway_map)
        IN  /\ Occurrences(sheet.completed_lines, l) <= 1
            /\ Contains(sheet.completed_lines, l) => AllMarked(sheet, l, subway_map)
            /\ c.completed =>
                  /\ AllMarked(sheet, l, subway_map)
                  /\ ~Contains(sheet.completed_lines, l)
                  /\ c.sheet.completed_lines = Append(sheet.completed_lines, l)
            /\ ~c.completed => c.sheet = sheet
            /\ ~again.completed
            /\ again.sheet = c.sheet

\* a completed line chosen again: its second window is filled after completion
C9Witness ==
    \E p \in DOMAIN players : \E l \in DOMAIN subway_map.lines :
        /\ Occurrences(players[p].completed_lines, l) = 1
        /\ Cardinality(Filled(players[p], l)) = Windows
        /\ LastCall("process_player_action") /\ ret.ok

StatusMatchesCompletion(ps) ==
    \A p \in DOMAIN ps : \A l \in DOMAIN ps[p].line_completion_status :
        Contains(ps[p].completed_lines, l) <=>
            ps[p].line_completion_status[l].kind # "NotCompleted"

\* C10: a line's completion status leaves NotCompleted in the step that puts
\* the line into completed_lines and never changes afterwards, so a line is
\* in completed_lines iff its status is not NotCompleted.
StatusAssignedOnce ==
    [][/\ StatusMatchesCompletion(players)
       /\ StatusMatchesCompletion(players')
       /\ \A p \in DOMAIN players : \A l \in DOMAIN players[p].line_completion_status :
            LET old == players[p].line_completion_status[l]
                new == players'[p].line_completion_status[l]
            IN  /\ old.kind # "NotCompleted" => new = old
                /\ new # old => /\ ~Contains(players[p].completed_lines, l)
                                /\ Contains(players'[p].completed_lines, l)]_vars

\* two players completed the same line, one first and one later
C10Witness ==
    \E p \in DOMAIN players, q \in DOMAIN players :
        \E l \in DOMAIN subway_map.lines :
            /\ players[p].line_completion_status[l].kind = "FirstToComplete"
            /\ players[q].line_completion_status[l].kind = "LaterCompletion"
            /\ Contains(players[p].completed_lines, l)
            /\ Contains(players[q].completed_lines, l)

\* the stations a Number, Six or Express card of value v crosses on a line:
\* the unmarked stations before the first marked one, or with Express the
\* unmarked stations whatever precedes them; the first v of them
ExpectedCrosses(card, stations, marked) ==
    LET v == get_value(card)
        free(i) == stations[i] \notin DOMAIN marked
    IN  IF card.kind = "Express"
        THEN {stations[i] : i \in {k \in 1..Len(stations) :
                 free(k) /\ Cardinality({j \in 1..(k - 1) : free(j)}) < v}}
        ELSE {stations[i] : i \in {k \in 1..Len(stations) :
                 k <= v /\ \A j \in 1..k : free(j)}}

\* C11: a Number, Six or Express card applied to a line crosses at most
\* value_of(card) stations in line order; Number and Six stop at the first
\* marked station, Express skips marked stations without spending a mark.
\* On five stations with the first three marked, Express(2) crosses the
\* fourth and fifth and Number(2) crosses nothing.
ScanStopsOrSkips ==
    [][(ret'.op = "process_player_action" /\ ret'.ok
        /\ current_card.kind \in {"Number", "Six", "Express"})
       => LET stations == ExampleMap.lines["green"].stations
              before == players[1].marked_stations
              after == players'[1].marked_stations
              new == DOMAIN after \ DOMAIN before
              firstThree == SheetWithMarks(ExampleMap, {"g1", "g2", "g3"})
          IN  /\ new = ExpectedCrosses(current_card, stations, before)
              /\ Cardinality(new) <= get_value(current_card)
              /\ ret'.marked = Cardinality(new)
              /\ \A st \in new : after[st] = Cross
              /\ \A st \in DOMAIN before : st \in DOMAIN after /\ after[st] = before[st]
              /\ mark_stations_from_line(firstThree, "green", Express(2), ExampleMap).marked
                     = <<"g4", "g5">>
              /\ mark_stations_from_line(firstThree, "green", Number(2), ExampleMap).marked
                     = <<>>]_vars

\* Express(2) applied once crossed two stations and left all five marked
C11Witness ==
    /\ LastCall("process_player_action") /\ ret.ok
    /\ current_card = Express(2)
    /\ ret.marked = 2
    /\ DOMAIN players[1].marked_stations = DOMAIN ExampleMap.stations
    /\ Cardinality(Filled(players[1], "green")) = 1

\* the score of the sheet by the scoring rule, on the integers
ScoreByRule(sheet, map) ==
    LET completed == {sheet.completed_lines[i] : i \in 1..Len(sheet.completed_lines)}
        transfers == {st \in DOMAIN sheet.marked_stations :
                         sheet.marked_stations[st].kind = "TransferNumber"}
        empty_station_count == TotalStations(map) - Cardinality(DOMAIN sheet.marked_stations)
    IN  SumOver([l \in completed |-> sheet.line_completion_status[l].points], completed)
        + 2 * SumOver([st \in transfers |-> sheet.marked_stations[st].n], transfers)
        - (empty_station_count \div 2)

\* C12: calculate_score of a player is the completion points of the
\* completed lines, plus twice the connection count of every TransferNumber
\* mark, minus floor(empty_station_count / 2), the empty station count being
\* the stations of all lines minus the marked stations of the player.
ScoreFollowsRule ==
    \A p \in DOMAIN players :
        calculate_score(players[p], subway_map)
            = {[panicked |-> FALSE, score |-> ScoreByRule(players[p], subway_map)]}

\* C17: a player never has more marked stations than the lines of the map
\* have stations, so count_empty_stations never goes below zero.
MarksWithinStations ==
    \A p \in DOMAIN players :
        /\ Cardinality(DOMAIN players[p].marked_stations) <= TotalStations(subway_map)
        /\ \A e \in count_empty_stations(players[p], subway_map) : ~e.panicked

\* how often the deck of the game holds a card
CopiesInDeck(card) ==
    CASE card.kind = "Number" /\ card.n \in 1..5 -> 2
      [] card.kind = "Six" /\ card.n = 0 -> 1
      [] card.kind = "Express" /\ card.n \in 2..4 -> 1
      [] card.kind \in {"Transfer", "FreeRide"} /\ card.n = 0 -> 1
      [] OTHER -> 0
CardValues ==
    [kind : {"Number", "Six", "Express", "Transfer", "FreeRide"}, n : 0..7]
IsFullDeck(d) ==
    /\ Len(d) = 16
    /\ \A card \in CardValues : Occurrences(d, card) = CopiesInDeck(card)

\* C16: create_deck returns 16 cards: Number 1..5 twice each, Six, Express 2,
\* 3 and 4, Transfer and FreeRide once each; a GameState just constructed
\* holds these cards in its deck, with an empty discard pile, no current
\* card, round 0 and game_ended false.
FreshGameHoldsFullDeck ==
    /\ IsFullDeck(create_deck)
    /\ LastCall("new") =>
          /\ IsFullDeck(deck)
          /\ discard_pile = <<>>
          /\ current_card = NoCard
          /\ round = 0
          /\ ~game_ended

\* a GameState just constructed, its deck shuffled
C16Witness == LastCall("new") /\ Len(deck) = 16 /\ deck # create_deck

\* the sequences hold the same cards, each as often
SameCards(d, e) ==
    /\ Len(d) = Len(e)
    /\ \A card \in CardValues : Occurrences(d, card) = Occurrences(e, card)

\* C18: next_round with Six as the current card moves the discard pile and
\* the Six into the deck: afterwards the discard pile is empty, there is no
\* current card, and the deck holds the cards of the deck and the discard
\* pile and the Six.
SixGoesBackIntoDeck ==
    [][(ret'.op = "next_round" /\ current_card = Six)
       => /\ discard_pile' = <<>>
          /\ current_card' = NoCard
          /\ SameCards(deck', Append(deck \o discard_pile, Six))]_vars

\* C19: next_round with a current card other than Six adds 1 to the round
\* counter, appends that card to the discard pile, leaves no current card
\* and leaves the deck and every PlayerSheet as they were; no other call
\* changes the round counter.
NextRoundFilesTheCard ==
    [][/\ (ret'.op = "next_round" /\ current_card \notin {Six, NoCard})
          => /\ round' = round + 1
             /\ discard_pile' = Append(discard_pile, current_card)
             /\ current_card' = NoCard
             /\ deck' = deck
             /\ players' = players
       /\ round' # round => (ret'.op = "next_round" /\ round' = round + 1)]_vars

\* a round closed on a card that is not Six, in a game with a player
C19Witness ==
    /\ LastCall("next_round")
    /\ round = 1
    /\ discard_pile # <<>>
    /\ DOMAIN players # {}

\* C20: draw_card returns no card only when the deck and the discard pile
\* are both empty; with an empty deck and a discard pile that is not, the
\* whole discard pile goes into the deck and one of its cards is returned;
\* with a deck that is not empty its last card is removed and returned and
\* the discard pile stays as it is.
DrawFollowsRule ==
    [][ret'.op = "reveal_card"
       => IF deck # <<>>
          THEN /\ ret'.ok
               /\ current_card' = Last(deck)
               /\ deck' = Front(deck)
               /\ discard_pile' = discard_pile
          ELSE IF discard_pile # <<>>
          THEN /\ ret'.ok
               /\ discard_pile' = <<>>
               /\ SameCards(Append(deck', current_card'), discard_pile)
          ELSE /\ ~ret'.ok
               /\ deck' = <<>>
               /\ discard_pile' = <<>>
               /\ current_card' = current_card]_vars

\* the seventeenth reveal found the deck empty and three cards discarded:
\* one of them is the current card, the other two are the deck
C20Witness ==
    /\ LastCall("reveal_card") /\ ret.ok
    /\ reveals = 17
    /\ round = 3
    /\ discard_pile = <<>>
    /\ Len(deck) = 2


\* a run of shuffle_deck that has left its loop
Shuffled(r) == shuffle_runs.run[r].started /\ shuffle_runs.run[r].i < 1

BelowCapacity(s) == Cardinality(sessions[s].conns) < SessionCapacity

\* two registered sessions of one city, both with free slots
TwoOpenSessionsOfACity ==
    \E a, b \in registry :
        /\ a # b
        /\ sessions[a].city = sessions[b].city
        /\ BelowCapacity(a)
        /\ BelowCapacity(b)

\* C14: two sessions of one city that are both below capacity come from the
\* race of find_or_create_session and from nothing else: they exist only
\* after two JoinGame calls overlapped, each session was inserted for the
\* joiner that is its conductor, and a task waiting to insert has finished
\* its scan under the read lock without a match
DuplicateSessionsOnlyByRace ==
    /\ TwoOpenSessionsOfACity => overlapped
    /\ \A a, b \in registry : a # b => sessions[a].conductor # sessions[b].conductor
    /\ \A t \in Tasks :
        tasks[t].pc = "write_wait" => tasks[t].to_visit = {} /\ t \notin rw_readers

\* both joiners of one city scanned an empty registry, each inserted a
\* session and was added to its own: two sessions of that city hold one
\* player each
C14Witness ==
    /\ overlapped
    /\ Len(sessions) = 2
    /\ registry = {1, 2}
    /\ sessions[1].city = sessions[2].city
    /\ sessions[1].conns = {sessions[1].conductor}
    /\ sessions[2].conns = {sessions[2].conductor}
    /\ sessions[1].conductor # sessions[2].conductor
    /\ TwoOpenSessionsOfACity


\* the tasks inside broadcast_message or send_to_player
Senders == {t \in Tasks : tasks[t].pc = "sending" /\ sending[t].msg # NoMessage}

\* the (message, player) pairs some task has still to visit or is sending
Pending ==
    UNION {{[msg |-> sending[t].msg, to |-> p] :
                p \in sending[t].to_visit \cup ({sending[t].locked} \ {NoId})} :
           t \in Senders}

\* the messages of which some channel was attempted
Attempted == {r.msg : r \in delivered \cup skipped}

\* C13: broadcast_message and send_to_player never wait for a busy
\* recipient.  A task with channels left to visit can always take its next
\* step, whoever holds their locks; every channel is attempted once, so a
\* (message, player) pair is delivered or skipped or still ahead, never two
\* of these; a skipped pair is never delivered later; and once a message has
\* left the loop every player of its audience was delivered to or skipped
BroadcastNeverWaits ==
    /\ \A t \in Senders :
        (sending[t].locked = NoId /\ sending[t].to_visit # {}) => ENABLED AttemptChannel(t)
    /\ delivered \cap skipped = {}
    /\ Pending \cap skipped = {}
    /\ \A t \in Senders :
        \A p \in sending[t].to_visit : [msg |-> sending[t].msg, to |-> p] \notin delivered
    /\ \A m \in Attempted :
        (m.kind # "GameJoined" /\ \A t \in Senders : sending[t].msg # m)
        => \A p \in m.audience :
              [msg |-> m, to |-> p] \in delivered \cup skipped
    /\ \A r \in skipped :
        r.msg.kind # "GameJoined" => r.to \in r.msg.audience

\* a broadcast to two players has left the loop: the channel of one was held
\* by its own task, which was sending GameJoined, and was skipped; the other
\* player was delivered to; and the skipped channel is free again
C13Witness ==
    \E r \in skipped, d \in delivered :
        /\ r.msg = d.msg
        /\ r.msg.kind = "CardRevealed"
        /\ r.msg.audience = {r.to, d.to}
        /\ r.to # d.to
        /\ \A t \in Senders : sending[t].msg # r.msg
        /\ chan_holder[ChannelOf(r.msg.session, r.to)] = NoId
        /\ \E j \in delivered : j.msg.kind = "GameJoined" /\ j.to = r.to


\* what process_player_action returns for every player and every action in
\* the current state
Answers ==
    {process_player_action(players, current_card, p, action, subway_map) :
        p \in PlayerIds, action \in PlayerActions(subway_map)}

\* C21: process_player_action is accepted only while a card is revealed.
\* No card is revealed before the first reveal_card and after next_round,
\* and only a reveal_card that returns a card ends that; while no card is
\* revealed every action of every kind returns an error, produces no
\* message and changes no sheet
NoCardRejectsEveryAction ==
    /\ [](reveals = 0 => current_card = NoCard)
    /\ [](current_card = NoCard
          => \A r \in Answers : ~r.ok /\ r.messages = <<>> /\ r.players = players)
    /\ [][/\ ret'.op = "next_round" => current_card' = NoCard
          /\ (current_card = NoCard /\ current_card' # NoCard)
             => (ret'.op = "reveal_card" /\ ret'.ok)
          /\ (current_card = NoCard /\ ret'.op = "process_player_action")
             => (~ret'.ok /\ players' = players)]_vars

\* a round was played and closed by next_round, and an action of a joined
\* player was then rejected
C21Witness ==
    /\ reveals >= 1
    /\ round = 1
    /\ current_card = NoCard
    /\ DOMAIN players # {}
    /\ LastCall("process_player_action")
    /\ ~ret.ok


\* every window on every line of every sheet holds a value
EveryWindowFilled(ps) ==
    \A p \in DOMAIN ps : \A l \in DOMAIN ps[p].train_cars :
        \A i \in 1..Windows : ps[p].train_cars[l][i] # None

\* C22: next_round sets game_ended to true iff at that moment every window
\* on every line of every sheet is filled; no other call changes
\* game_ended, nothing sets it back, and the cards left in the deck and the
\* discard pile play no part
EndedIffEveryWindowFilled ==
    [][/\ ret'.op = "next_round"
          => (game_ended' <=> (game_ended \/ EveryWindowFilled(players)))
       /\ game_ended' # game_ended
          => (ret'.op = "next_round" /\ game_ended' /\ EveryWindowFilled(players))]_vars

\* next_round has ended a game of two players whose eight windows are all
\* filled, with cards left in the deck
C22Witness ==
    /\ LastCall("next_round")
    /\ game_ended
    /\ Cardinality(DOMAIN players) = 2
    /\ EveryWindowFilled(players)
    /\ Len(deck) > 0


\* the players holding FirstToComplete for line l
FirstCompleters(ps, l) ==
    {p \in DOMAIN ps : ps[p].line_completion_status[l].kind = "FirstToComplete"}

\* player p has line l among its completed lines
HasCompleted(ps, p, l) == p \in DOMAIN ps /\ Contains(ps[p].completed_lines, l)

\* C23: for each line at most one player of the game ever holds
\* FirstToComplete.  A player whose call completes a line gets
\* FirstToComplete with the first points of the line iff no other player
\* had the line among its completed lines before the call, and
\* LaterCompletion with the second points otherwise
OneFirstCompleterPerLine ==
    /\ [](\A l \in DOMAIN subway_map.lines : Cardinality(FirstCompleters(players, l)) <= 1)
    /\ [][\A p \in DOMAIN players, l \in DOMAIN subway_map.lines :
            (~HasCompleted(players, p, l) /\ HasCompleted(players', p, l))
            => players'[p].line_completion_status[l] =
                  IF \E q \in DOMAIN players \ {p} : HasCompleted(players, q, l)
                  THEN LaterCompletion(subway_map.lines[l].completion_points[2])
                  ELSE FirstToComplete(subway_map.lines[l].completion_points[1])]_vars

\* two players completed the same line one after the other: the first
\* holds FirstToComplete and the second LaterCompletion
C23Witness ==
    \E l \in DOMAIN subway_map.lines, p, q \in DOMAIN players :
        /\ p # q
        /\ HasCompleted(players, p, l)
        /\ HasCompleted(players, q, l)
        /\ players[p].line_completion_status[l].kind = "FirstToComplete"
        /\ players[q].line_completion_status[l].kind = "LaterCompletion"


\* the step is a call of process_player_action with an action of this kind
Handled(kind) == ret'.op = "process_player_action" /\ ret'.action.kind = kind

\* the call left everything of the GameState but the sheets as it was
OnlySheetsChange == UNCHANGED <<city, current_card, deck, discard_pile, round, game_ended>>

\* C24: MarkFreeRideStation succeeds iff the current card is FreeRide and
\* the named station is not yet marked on the sheet of the acting player;
\* on success that station, and nothing else, becomes Cross on that sheet;
\* otherwise the action is rejected and nothing changes
FreeRideMarksOneStation ==
    [][Handled("MarkFreeRideStation")
       => LET p == ret'.player
              station == ret'.action.station_id
          IN  /\ ret'.ok <=> (/\ current_card = FreeRide
                              /\ station \notin DOMAIN players[p].marked_stations)
              /\ ret'.ok
                 => players' = [players EXCEPT ![p].marked_stations = Insert(@, station, Cross)]
              /\ ~ret'.ok => players' = players
              /\ OnlySheetsChange]_vars

\* with FreeRide revealed a station of the map was marked Cross by the call
\* made last
C24Witness ==
    /\ LastCall("process_player_action")
    /\ ret.ok
    /\ ret.action.kind = "MarkFreeRideStation"
    /\ current_card = FreeRide
    /\ ret.action.station_id \in DOMAIN subway_map.stations
    /\ players[ret.player].marked_stations[ret.action.station_id] = Cross


\* the lines of the map whose station order names the station
LinesThrough(map, station) ==
    {l \in DOMAIN map.lines : Contains(map.lines[l].stations, station)}

\* C25: MarkTransferStation succeeds iff the current card is Transfer and
\* the map has the named station; on success the mark of that station on
\* the sheet of the acting player is TransferNumber(number of lines through
\* the station) and nothing else changes; otherwise the action is rejected
\* and nothing changes
TransferMarksConnectionCount ==
    [][Handled("MarkTransferStation")
       => LET p == ret'.player
              station == ret'.action.station_id
          IN  /\ ret'.ok <=> (/\ current_card = Transfer
                              /\ station \in DOMAIN subway_map.stations)
              /\ ret'.ok
                 => players' = [players EXCEPT ![p].marked_stations =
                                   Insert(@, station,
                                          TransferNumber(Cardinality(
                                              LinesThrough(subway_map, station))))]
              /\ ~ret'.ok => players' = players
              /\ OnlySheetsChange]_vars

\* with Transfer revealed the station where two lines meet was marked
\* TransferNumber(2) by the call made last
C25Witness ==
    /\ LastCall("process_player_action")
    /\ ret.ok
    /\ ret.action.kind = "MarkTransferStation"
    /\ current_card = Transfer
    /\ Cardinality(LinesThrough(subway_map, ret.action.station_id)) = 2
    /\ players[ret.player].marked_stations[ret.action.station_id] = TransferNumber(2)


\* no empty window stands before a filled one
FilledIsPrefix(windows) ==
    \A i \in 1..(Len(windows) - 1) : windows[i] = None => windows[i + 1] = None

\* C26: on every sheet the filled windows of every line are a prefix of its
\* 4 windows.  A successful ChooseLine fills the first empty window of the
\* chosen line and no other window, whatever car_window_index it carries,
\* and two ChooseLine actions that differ only in car_window_index return
\* the same result and the same sheets
WindowIndexIsIgnored ==
    /\ [](\A p \in DOMAIN players : \A l \in DOMAIN players[p].train_cars :
            /\ Len(players[p].train_cars[l]) = Windows
            /\ FilledIsPrefix(players[p].train_cars[l]))
    /\ [](\A p \in DOMAIN players, l \in DOMAIN subway_map.lines \cup {UnknownLine} :
            \A w \in 1..(Windows - 1) :
                process_player_action(players, current_card, p, ChooseLine(l, 0), subway_map)
                = process_player_action(players, current_card, p, ChooseLine(l, w),
                                        subway_map))
    /\ [][(Handled("ChooseLine") /\ ret'.ok)
          => LET p == ret'.player
                 l == ret'.action.line_id
                 k == Cardinality(Filled(players[p], l)) + 1
             IN  /\ k <= Windows
                 /\ players'[p].train_cars[l][k] # None
                 /\ players'[p].train_cars =
                        [players[p].train_cars EXCEPT ![l][k] = players'[p].train_cars[l][k]]
                 /\ \A q \in DOMAIN players \ {p} : players'[q] = players[q]]_vars

\* a ChooseLine asking for the last window filled the second window of a
\* line whose first window was filled before
C26Witness ==
    /\ LastCall("process_player_action")
    /\ ret.ok
    /\ ret.action.kind = "ChooseLine"
    /\ ret.action.car_window_index = Windows - 1
    /\ Filled(players[ret.player], ret.action.line_id) = {1, 2}
    /\ players[ret.player].train_cars[ret.action.line_id][3] = None


\* the decimal numerals of the card values
Numeral == <<"1", "2", "3", "4", "5", "6">>

\* the text a window gets for a card: "+" for Transfer, the numeral of the
\* value for Number, Six and Express; FreeRide has no value and no text
TextsOf(card) ==
    CASE card.kind = "Transfer" -> {"+"}
      [] card.kind = "Number" /\ card.n \in 1..5 -> {Numeral[card.n]}
      [] card.kind = "Six" -> {Numeral[6]}
      [] card.kind = "Express" /\ card.n \in 2..4 -> {Numeral[card.n]}
      [] OTHER -> {}

\* C27: the window a successful ChooseLine fills holds the textual value of
\* the current card: "+" for Transfer and otherwise the decimal numeral of
\* the value of the card
WindowHoldsCardText ==
    [][(Handled("ChooseLine") /\ ret'.ok)
       => LET p == ret'.player
              l == ret'.action.line_id
              k == Cardinality(Filled(players[p], l)) + 1
          IN  players'[p].train_cars[l][k] \in TextsOf(current_card)]_vars

\* the same for the cards that have a text
WindowHoldsCardTextUnlessFreeRide ==
    [][(Handled("ChooseLine") /\ ret'.ok /\ current_card # FreeRide)
       => LET p == ret'.player
              l == ret'.action.line_id
              k == Cardinality(Filled(players[p], l)) + 1
          IN  players'[p].train_cars[l][k] \in TextsOf(current_card)]_vars


\* the positions in the station order of a line that the sheet has not marked
UnmarkedPositions(sheet, stations) ==
    {i \in 1..Len(stations) : stations[i] \notin DOMAIN sheet.marked_stations}

\* the least of a non-empty set of positions
Least(positions) == CHOOSE i \in positions : \A j \in positions : i <= j

\* C28: a successful ChooseLine with Transfer as the current card marks one
\* station, the first station in the order of the line that the player has
\* not marked, as TransferNumber(number of lines through it), and leaves
\* every mark the player had as it was; when every station of the line is
\* marked it marks nothing.  The result message counts the stations marked
TransferMarksFirstUnmarked ==
    [][(Handled("ChooseLine") /\ ret'.ok /\ current_card = Transfer)
       => LET p == ret'.player
              stations == subway_map.lines[ret'.action.line_id].stations
              unmarked == UnmarkedPositions(players[p], stations)
              result == ret'.messages[Len(ret'.messages)]
          IN  /\ result.type = "PlayerActionResult"
              /\ IF unmarked = {}
                 THEN /\ players'[p].marked_stations = players[p].marked_stations
                      /\ result.n = 0
                 ELSE /\ players'[p].marked_stations =
                            Insert(players[p].marked_stations, stations[Least(unmarked)],
                                   TransferNumber(Cardinality(
                                       LinesThrough(subway_map, stations[Least(unmarked)]))))
                      /\ result.n = 1]_vars

\* with the first station of the line already marked, a Transfer card put
\* on the line marked its second station and no other
C28Witness ==
    /\ LastCall("process_player_action")
    /\ ret.ok
    /\ ret.action = ChooseLine("red", 0)
    /\ current_card = Transfer
    /\ ret.messages[Len(ret.messages)].n = 1
    /\ DOMAIN players[ret.player].marked_stations = {"central", "dam"}
    /\ players[ret.player].marked_stations["dam"] = TransferNumber(1)
    /\ players[ret.player].marked_stations["central"] = Cross


\* the positions of the GameEnded messages among those passed on
GameEndedAt(sent) == {i \in 1..Len(sent) : sent[i].message.type = "GameEnded"}

\* one GameEnded, passed to broadcast_message after every other message,
\* with a score for every player of the session
BroadcastsFinalScores(sent, ps) ==
    /\ GameEndedAt(sent) = {Len(sent)}
    /\ sent[Len(sent)].to = Everyone
    /\ DOMAIN sent[Len(sent)].message.scores = DOMAIN ps

\* C29: after a successful action handle_player_action broadcasts GameEnded,
\* with a score for every player of the session, exactly when every window
\* of every player is filled after that action; a rejected action never
\* leads to a GameEnded broadcast
GameEndedWhenEveryWindowFilled ==
    [][ret'.op = "process_player_action"
       => /\ (ret'.ok /\ EveryWindowFilled(players'))
             => BroadcastsFinalScores(ret'.sent, players')
          /\ ~(ret'.ok /\ EveryWindowFilled(players')) => GameEndedAt(ret'.sent) = {}]_vars

\* the same for the calls that return from calculate_final_scores
GameEndedUnlessPanicked ==
    [][(ret'.op = "process_player_action" /\ ~ret'.panicked)
       => /\ (ret'.ok /\ EveryWindowFilled(players'))
             => BroadcastsFinalScores(ret'.sent, players')
          /\ ~(ret'.ok /\ EveryWindowFilled(players')) => GameEndedAt(ret'.sent) = {}]_vars


\* the failure descriptions of process_player_action
Descriptions ==
    {"No card revealed", "Player not found", "No empty windows available for this line",
     "Could not add card to line", "Line not found", "Station not found",
     "Can only mark transfer station with transfer card",
     "Can only mark free ride station with free ride card", "Station already marked"}

\* C30: when process_player_action fails, handle_player_action passes on
\* one message and no more: an Error carrying the failure description, to
\* send_to_player for the acting player; nothing goes to another player and
\* nothing to broadcast_message
ErrorGoesToTheActingPlayerOnly ==
    [][(ret'.op = "process_player_action" /\ ~ret'.ok)
       => /\ ret'.messages = <<>>
          /\ ret'.err \in Descriptions
          /\ Len(ret'.sent) = 1
          /\ ret'.sent[1].to = ret'.player
          /\ ret'.sent[1].to # Everyone
          /\ ret'.sent[1].message.type = "Error"
          /\ ret'.sent[1].message.text = ret'.err
          /\ ~ret'.panicked]_vars

\* in a session of two players an action of one of them was rejected
C30Witness ==
    /\ LastCall("process_player_action")
    /\ ~ret.ok
    /\ Cardinality(DOMAIN players) = 2
    /\ ret.err = "Station already marked"
    /\ ret.sent = <<Routed(ret.player, ErrorMessage("Station already marked"))>>


\* C31: for a successful action handle_player_action passes on every
\* message process_player_action returned, in the order it returned them:
\* each LineCompleted to broadcast_message and each other message to
\* send_to_player for the acting player; nothing follows them but GameEnded
MessagesRoutedInOrder ==
    [][(ret'.op = "process_player_action" /\ ret'.ok)
       => /\ Len(ret'.messages) >= 1
          /\ Len(ret'.sent) >= Len(ret'.messages)
          /\ \A i \in 1..Len(ret'.messages) :
                /\ ret'.sent[i].message = ret'.messages[i]
                /\ ret'.messages[i].type \in {"LineCompleted", "PlayerActionResult"}
                /\ ret'.sent[i].to = IF ret'.messages[i].type = "LineCompleted"
                                     THEN Everyone ELSE ret'.player
          /\ ret'.player # Everyone
          /\ \A i \in (Len(ret'.messages) + 1)..Len(ret'.sent) :
                i = Len(ret'.sent) /\ ret'.sent[i].message.type = "GameEnded"]_vars

\* in a session of two players a ChooseLine completed a line: LineCompleted
\* went to everyone and then the PlayerActionResult to the acting player
C31Witness ==
    /\ LastCall("process_player_action")
    /\ ret.ok
    /\ Cardinality(DOMAIN players) = 2
    /\ Len(ret.sent) = 2
    /\ ret.sent[1] = Routed(Everyone, LineCompleted(ret.player, ret.action.line_id))
    /\ ret.sent[2].to = ret.player
    /\ ret.sent[2].message.type = "PlayerActionResult"


\* C32: a start_new_round whose reveal_card returns a card broadcasts
\* CardRevealed with the card drawn and then the GameState, whose current
\* card is that card and whose sheets are those of the session; one whose
\* reveal_card returns None sends nothing and leaves the GameState as it was
StartNewRoundBroadcastsCardThenState ==
    [][ret'.op = "reveal_card"
       => IF ret'.ok
          THEN /\ Len(ret'.sent) = 2
               /\ \E seed \in Seeds :
                    ret'.sent[1] = Routed(Everyone,
                        CardRevealedMessage(draw_card(deck, discard_pile, seed).card))
               /\ ret'.sent[1].message.card # NoCard
               /\ ret'.sent[2].to = Everyone
               /\ ret'.sent[2].message.type = "GameState"
               /\ ret'.sent[2].message.current_card = ret'.sent[1].message.card
               /\ ret'.sent[2].message.current_card = current_card'
               /\ ret'.sent[2].message.players = players'
          ELSE /\ ret'.sent = <<>>
               /\ UNCHANGED gameVars]_vars

\* the deck of a session with a player ran out: a start_new_round after the
\* last card revealed nothing and sent nothing
C32Witness ==
    /\ LastCall("reveal_card")
    /\ ~ret.ok
    /\ ret.sent = <<>>
    /\ deck = <<>>
    /\ current_card # NoCard
    /\ DOMAIN players # {}


\* C33: in every session the connected players are the players with a sheet,
\* each with its sender; no session and no entry of either map ever goes
\* away, and a connection that closes changes no session and no registry
ConnectionsMatchSheets ==
    /\ [](\A s \in DOMAIN sessions :
            /\ sessions[s].conns = sessions[s].sheets
            /\ DOMAIN sessions[s].senders = sessions[s].conns)
    /\ [][/\ DOMAIN sessions \subseteq DOMAIN sessions'
          /\ \A s \in DOMAIN sessions :
                /\ sessions[s].conns \subseteq sessions'[s].conns
                /\ sessions[s].sheets \subseteq sessions'[s].sheets]_vars
    /\ [][(\E t \in Tasks : tasks[t].pc # "closed" /\ tasks'[t].pc = "closed")
          => /\ sessions' = sessions
             /\ registry' = registry]_vars

\* a connection has closed after its player joined a session, and the player
\* is still in both maps of that session while another player is in it too
C33Witness ==
    \E t \in Tasks :
        /\ tasks[t].pc = "closed"
        /\ tasks[t].game_session # NoId
        /\ tasks[t].player_id \in sessions[tasks[t].game_session].conns
        /\ tasks[t].player_id \in sessions[tasks[t].game_session].sheets
        /\ Cardinality(sessions[tasks[t].game_session].conns) >= 2


\* C35: every JoinGame the server processes is answered: no GameJoined reply
\* is dropped because the sender of the joining connection was locked
EveryJoinGameIsAnswered ==
    \A k \in skipped : k.msg.kind # "GameJoined"


\* the tasks inside find_or_create_session and the session mutexes held
Finding == {t \in Tasks : tasks[t].pc \in {"read_wait", "scan", "write_wait"}}
MutexHolders == {sessions[s].holder : s \in DOMAIN sessions} \ {NoId}

\* C34: no task that holds a session mutex is waiting for the registry lock,
\* and one that has channels to visit can always go on, whoever holds their
\* locks; under fair scheduling every task that has entered
\* find_or_create_session leaves it with the handle of a session
FindOrCreateSessionReturns ==
    /\ [](/\ MutexHolders \cap Finding = {}
          /\ \A t \in MutexHolders :
                (tasks[t].pc = "sending" /\ sending[t].locked = NoId /\ sending[t].to_visit # {})
                => ENABLED AttemptChannel(t))
    /\ \A t \in Tasks :
        (tasks[t].pc = "read_wait")
            ~> (tasks[t].pc = "add_wait" /\ tasks[t].session \in DOMAIN sessions)

\* a task scanning the registry under its read lock waits for the mutex of a
\* session whose holder is in the middle of a send on a locked channel
C34Witness ==
    \E t \in Tasks : \E u \in Tasks \ {t} :
        /\ tasks[t].pc = "scan"
        /\ t \in rw_readers
        /\ tasks[t].to_visit # {}
        /\ \A s \in tasks[t].to_visit : sessions[s].holder = u
        /\ tasks[u].pc = "sending"
        /\ sending[u].locked # NoId

=============================================================================
